---- MODULE Spec2Model ----
(***************************************************************************)
(* A model of gaspiman/ebay-mcp: the OAuth provider of backend/ (the       *)
(* authorization-code lifecycle and the token endpoint over the GORM       *)
(* store) and the relay of main.go (the state map between /authorize and   *)
(* /callback).                                                             *)
(*                                                                         *)
(* Time is counted in minutes.  A missing form, query or JSON field is the *)
(* empty string, as gin and net/http deliver it.                           *)
(***************************************************************************)
EXTENDS Integers, Sequences, FiniteSets, TLC

(* ------------------------------ bounds -------------------------------- *)

\* Authorization codes ever persisted.
MaxCodes == 1
\* Access tokens ever persisted.
MaxAccessTokens == 3
\* Advances of the clock.
MaxTicks == 1

(* ------------------------- program constants -------------------------- *)

\* 10 * time.Minute
CodeTTL == 10
\* 1 * time.Hour
AccessTTL == 60
\* 30 * 24 * time.Hour
RefreshTTL == 43200
\* "expires_in": 3600
ExpiresIn == 3600

(* --------------------------- provider state --------------------------- *)

VARIABLES
    DB,      \* database.DB: the three token tables, rows in primary-key order
    rng,     \* number of tokens utils.GenerateRandomToken has handed out
    now,     \* time.Now(), in minutes
    ticks,   \* how often the clock has advanced
    procs,   \* the request each handler goroutine serves, with its locals
    hist     \* history: what the token endpoint has answered and minted

provider == <<DB, rng, now, ticks, procs, hist>>

(* ---------------------------- relay state ----------------------------- *)

VARIABLES
    stateStore,  \* main.go's stateStore: state -> OpenAI's redirect_uri
    relay,       \* the request each relay handler goroutine serves
    consumed,    \* history: states a callback has deleted, not stored since
    superseded   \* history: states whose latest entry replaced an entry
                 \* that held another address

relayVars == <<stateStore, relay, consumed, superseded>>

\* Rows of oauth_clients, created out of band and never changed by a flow.
\* RedirectURIs is the decoded JSON array.
OAuthClients ==
    { [ID |-> "app1", ClientSecret |-> "secret1", Name |-> "App One",
       RedirectURIs |-> <<"https://a/cb">>],
      [ID |-> "app2", ClientSecret |-> "secret2", Name |-> "App Two",
       RedirectURIs |-> <<"https://b/cb">>] }

\* Rows of users: the subject ids a session can carry.  0 is "no user_id".
Users == {1, 2}

FrontendURL == "http://localhost:3000"

\* The n-th output of utils.GenerateRandomToken(32): unguessable and fresh.
GenerateRandomToken(n) == "tok" \o ToString(n)

SeqToSet(s) == {s[i] : i \in 1..Len(s)}

\* The store operations a handler has issued, in order.
Logged(p, what) == [p EXCEPT !.log = Append(@, what)]

NoRow == [ID |-> 0]

\* A handler's frame before it runs.
NewProc(op, req) ==
    [op |-> op, pc |-> op, req |-> req, authCode |-> NoRow,
     refreshTokenModel |-> NoRow, accessToken |-> "", refreshToken |-> "",
     resp |-> [status |-> 0], log |-> <<>>]

Idle == [op |-> "none", pc |-> "idle", req |-> [none |-> TRUE],
         authCode |-> NoRow, refreshTokenModel |-> NoRow, accessToken |-> "",
         refreshToken |-> "", resp |-> [status |-> 0], log |-> <<>>]

\* c.JSON(status, body) followed by return: the frame's locals are gone.
Respond(p, status, body) ==
    [p EXCEPT !.pc = "done", !.resp = [status |-> status, body |-> body],
              !.authCode = NoRow, !.refreshTokenModel = NoRow,
              !.accessToken = "", !.refreshToken = ""]

\* .First(&row): of the primary keys of the matching rows the smallest,
\* 0 if there is none.
First(hits) ==
    IF hits = {} THEN 0 ELSE CHOOSE i \in hits : \A j \in hits : i <= j

\* .Create(&row): the row gets the next primary key.
Create(table, row) == Append(table, [ID |-> Len(table) + 1] @@ row)

(* ------------------- POST /oauth/token, step by step ------------------ *)

\* A world is what a handler step reads and writes outside its frame.
World(db, r, h) == [db |-> db, rng |-> r, hist |-> h]

Out(w, p) == [w |-> w, p |-> p]

\* Mutant: the client is looked up by id alone, the secret is not compared.
TokenEntryNoSecret(w, p) ==
    LET req == p.req IN
    IF req.grant_type = "" \/ req.client_id = "" \/ req.client_secret = ""
    THEN Out(w, Respond(p, 400, [error |-> "invalid_request",
                                 error_description |-> "required"]))
    ELSE
    LET q == Logged(p, "oauth_clients.First") IN
    IF ~ \E c \in OAuthClients : c.ID = req.client_id
    THEN Out(w, Respond(q, 401, [error |-> "invalid_client"]))
    ELSE CASE req.grant_type = "authorization_code" ->
                  Out(w, [q EXCEPT !.pc = "CodeLookup"])
           [] req.grant_type = "refresh_token" ->
                  Out(w, [q EXCEPT !.pc = "RefreshLookup"])
           [] OTHER ->
                  Out(w, Respond(q, 400, [error |-> "unsupported_grant_type"]))

\* Mutant: whatever is no refresh is taken for a code exchange.
DispatchCodeByDefault(grantType) ==
    IF grantType = "refresh_token" THEN "RefreshLookup" ELSE "CodeLookup"

\* The switch of lines 180-187: the handler a grant type is sent to.
Dispatch(grantType) ==
    CASE grantType = "authorization_code" -> "CodeLookup"
      [] grantType = "refresh_token"      -> "RefreshLookup"
      [] OTHER                            -> "default"

\* Token, lines 158-188: bind the form, authenticate the client, dispatch.
TokenEntry(w, p) ==
    LET req == p.req IN
    IF req.grant_type = "" \/ req.client_id = "" \/ req.client_secret = ""
    THEN Out(w, Respond(p, 400, [error |-> "invalid_request",
                                 error_description |-> "required"]))
    ELSE
    LET q == Logged(p, "oauth_clients.First") IN
    IF ~ \E c \in OAuthClients :
            c.ID = req.client_id /\ c.ClientSecret = req.client_secret
    THEN Out(w, Respond(q, 401, [error |-> "invalid_client"]))
    ELSE IF Dispatch(req.grant_type) = "default"
    THEN Out(w, Respond(q, 400, [error |-> "unsupported_grant_type"]))
    ELSE Out(w, [q EXCEPT !.pc = Dispatch(req.grant_type)])

\* Mutant: the lookup forgets the used flag.
CodeMatchesIgnoringUsed(row, code, clientID, redirectURI, t) ==
    /\ row.Code = code
    /\ row.ClientID = clientID
    /\ row.RedirectURI = redirectURI
    /\ row.ExpiresAt > t

\* Mutant: a code is still good at the instant it expires.
CodeMatchesAtExpiry(row, code, clientID, redirectURI, t) ==
    /\ row.Code = code
    /\ row.ClientID = clientID
    /\ row.RedirectURI = redirectURI
    /\ row.Used = FALSE
    /\ row.ExpiresAt >= t

\* The WHERE clause of line 193.
CodeMatches(row, code, clientID, redirectURI, t) ==
    /\ row.Code = code
    /\ row.ClientID = clientID
    /\ row.RedirectURI = redirectURI
    /\ row.Used = FALSE
    /\ row.ExpiresAt > t

\* Mutant: a code that is there but spent is refused with a description of
\* its own.
CodeLookupTelling(w, p, t) ==
    LET q == Logged(p, "oauth_authorization_codes.First")
        table == w.db.authorization_codes
        id == First({k \in 1..Len(table) :
                        CodeMatches(table[k], p.req.code, p.req.client_id,
                                    p.req.redirect_uri, t)})
    IN  IF id = 0
        THEN IF \E k \in 1..Len(table) :
                    table[k].Code = p.req.code /\ table[k].Used
             THEN Out(w, Respond(q, 400,
                         [error |-> "invalid_grant",
                          error_description |-> "code already used"]))
             ELSE Out(w, Respond(q, 400, [error |-> "invalid_grant"]))
        ELSE Out(w, [q EXCEPT !.authCode = w.db.authorization_codes[id],
                              !.pc = "MarkUsed"])

\* Mutant: a code presented in vain is spent.
CodeLookupBurning(w, p, t) ==
    LET q == Logged(p, "oauth_authorization_codes.First")
        table == w.db.authorization_codes
        id == First({k \in 1..Len(table) :
                        CodeMatches(table[k], p.req.code, p.req.client_id,
                                    p.req.redirect_uri, t)})
    IN  IF id = 0
        THEN Out([w EXCEPT !.db.authorization_codes =
                     [k \in 1..Len(table) |->
                         IF table[k].Code = p.req.code
                         THEN [table[k] EXCEPT !.Used = TRUE]
                         ELSE table[k]]],
                 Respond(q, 400, [error |-> "invalid_grant"]))
        ELSE Out(w, [q EXCEPT !.authCode = w.db.authorization_codes[id],
                              !.pc = "MarkUsed"])

\* handleAuthorizationCodeGrant, lines 191-197: find the code.
CodeLookup(w, p, t) ==
    LET q == Logged(p, "oauth_authorization_codes.First")
        table == w.db.authorization_codes
        id == First({k \in 1..Len(table) :
                        CodeMatches(table[k], p.req.code, p.req.client_id,
                                    p.req.redirect_uri, t)})
    IN  IF id = 0
        THEN Out(w, Respond(q, 400, [error |-> "invalid_grant"]))
        ELSE Out(w, [q EXCEPT !.authCode = w.db.authorization_codes[id],
                              !.pc = "MarkUsed"])

\* Line 200: UPDATE ... SET used = true WHERE id = authCode.ID.  The error
\* the update returns is not looked at: a failed update changes nothing and
\* Mutant: an exchanged code is removed from the store.
MarkUsedDeleting(w, p, fails) ==
    Out([w EXCEPT !.db.authorization_codes =
                      SelectSeq(@, LAMBDA row : row.ID # p.authCode.ID)],
        [Logged(p, "oauth_authorization_codes.Delete")
            EXCEPT !.pc = "GenTokens"])

\* the handler goes on.
MarkUsed(w, p, fails) ==
    LET q == Logged(p, "oauth_authorization_codes.Update") IN
    IF fails
    THEN Out(w, [q EXCEPT !.pc = "GenTokens"])
    ELSE Out([w EXCEPT !.db.authorization_codes[p.authCode.ID].Used = TRUE],
             [q EXCEPT !.authCode.Used = TRUE, !.pc = "GenTokens"])

\* Lines 202-214: the access token, then the refresh token.
GenTokens(w, p, fails) ==
    IF fails
    THEN Out(w, Respond(p, 500, [error |-> "server_error"]))
    ELSE Out([w EXCEPT !.rng = @ + 2],
             [p EXCEPT !.accessToken = GenerateRandomToken(w.rng + 1),
                       !.refreshToken = GenerateRandomToken(w.rng + 2),
                       !.pc = "CreateAccess"])

\* Mutant: an access token is good for every scope.
AccessTokenModelAllScopes(token, clientID, from, t) ==
    [Token |-> token, ClientID |-> clientID, UserID |-> from.UserID,
     Scope |-> "read write", ExpiresAt |-> t + AccessTTL]

\* Lines 217-223.
AccessTokenModel(token, clientID, from, t) ==
    [Token |-> token, ClientID |-> clientID, UserID |-> from.UserID,
     Scope |-> from.Scope, ExpiresAt |-> t + AccessTTL]

\* Mutant: the refresh token is stored without the code's scope.
RefreshTokenModelNoScope(token, clientID, from, t) ==
    [Token |-> token, ClientID |-> clientID, UserID |-> from.UserID,
     Scope |-> "", ExpiresAt |-> t + RefreshTTL]

\* Lines 225-231.
RefreshTokenModel(token, clientID, from, t) ==
    [Token |-> token, ClientID |-> clientID, UserID |-> from.UserID,
     Scope |-> from.Scope, ExpiresAt |-> t + RefreshTTL]

\* Lines 233-236.
CreateAccess(w, p, t, fails) ==
    LET q == Logged(p, "oauth_access_tokens.Create") IN
    IF fails
    THEN Out(w, Respond(q, 500, [error |-> "server_error"]))
    ELSE Out([w EXCEPT
                !.db.access_tokens = Create(@,
                    AccessTokenModel(p.accessToken, p.req.client_id,
                                     p.authCode, t)),
                !.hist.minted = @ \cup {<<p.accessToken, p.authCode.Code>>}],
             [q EXCEPT !.pc = "CreateRefresh"])

\* Lines 238-249.
CreateRefresh(w, p, t, fails) ==
    LET q == Logged(p, "oauth_refresh_tokens.Create") IN
    IF fails
    THEN Out(w, Respond(q, 500, [error |-> "server_error"]))
    ELSE Out([w EXCEPT
                !.db.refresh_tokens = Create(@,
                    RefreshTokenModel(p.refreshToken, p.req.client_id,
                                      p.authCode, t)),
                !.hist.minted = @ \cup {<<p.refreshToken, p.authCode.Code>>},
                !.hist.grants = @ \cup {<<p.authCode.Code, p.accessToken,
                                          p.refreshToken>>}],
             Respond(q, 200, [access_token  |-> p.accessToken,
                              token_type    |-> "Bearer",
                              expires_in    |-> ExpiresIn,
                              refresh_token |-> p.refreshToken,
                              scope         |-> p.authCode.Scope]))

\* Mutant: the lookup does not ask whose token it is.
RefreshMatchesAnyClient(row, token, clientID, t) ==
    /\ row.Token = token
    /\ row.ExpiresAt > t

\* The WHERE clause of line 255.
RefreshMatches(row, token, clientID, t) ==
    /\ row.Token = token
    /\ row.ClientID = clientID
    /\ row.ExpiresAt > t

\* handleRefreshTokenGrant, lines 253-259.
RefreshLookup(w, p, t) ==
    LET q == Logged(p, "oauth_refresh_tokens.First")
        table == w.db.refresh_tokens
        id == First({k \in 1..Len(table) :
                        RefreshMatches(table[k], p.req.refresh_token,
                                       p.req.client_id, t)})
    IN  IF id = 0
        THEN Out(w, Respond(q, 400, [error |-> "invalid_grant"]))
        ELSE Out(w, [q EXCEPT !.refreshTokenModel = w.db.refresh_tokens[id],
                              !.pc = "RefreshGen"])

\* Lines 261-266.
RefreshGen(w, p, fails) ==
    IF fails
    THEN Out(w, Respond(p, 500, [error |-> "server_error"]))
    ELSE Out([w EXCEPT !.rng = @ + 1],
             [p EXCEPT !.accessToken = GenerateRandomToken(w.rng + 1),
                       !.pc = "RefreshCreate"])

\* Mutant: the refresh grant rotates: the presented refresh token is
\* withdrawn once it has been used.
RefreshCreateRotating(w, p, t, fails) ==
    LET q == Logged(p, "oauth_access_tokens.Create")
        keep == SelectSeq(w.db.refresh_tokens,
                          LAMBDA row : row.Token # p.refreshTokenModel.Token)
    IN
    IF fails
    THEN Out(w, Respond(q, 500, [error |-> "server_error"]))
    ELSE Out([w EXCEPT
                !.db.access_tokens = Create(@,
                    AccessTokenModel(p.accessToken, p.req.client_id,
                                     p.refreshTokenModel, t)),
                !.db.refresh_tokens = keep,
                !.hist.refreshes = @ \cup {<<p.refreshTokenModel.Token,
                                             p.accessToken>>}],
             Respond(q, 200, [access_token |-> p.accessToken,
                              token_type   |-> "Bearer",
                              expires_in   |-> ExpiresIn,
                              scope        |-> p.refreshTokenModel.Scope]))

\* Mutant: a refresh withdraws the access tokens issued before it for the
\* same client.
RefreshCreateRevoking(w, p, t, fails) ==
    LET q == Logged(p, "oauth_access_tokens.Create")
        keep == SelectSeq(w.db.access_tokens,
                          LAMBDA row : row.ClientID # p.req.client_id)
    IN
    IF fails
    THEN Out(w, Respond(q, 500, [error |-> "server_error"]))
    ELSE Out([w EXCEPT
                !.db.access_tokens = Create(keep,
                    AccessTokenModel(p.accessToken, p.req.client_id,
                                     p.refreshTokenModel, t)),
                !.hist.refreshes = @ \cup {<<p.refreshTokenModel.Token,
                                             p.accessToken>>}],
             Respond(q, 200, [access_token |-> p.accessToken,
                              token_type   |-> "Bearer",
                              expires_in   |-> ExpiresIn,
                              scope        |-> p.refreshTokenModel.Scope]))

\* Lines 268-287.
RefreshCreate(w, p, t, fails) ==
    LET q == Logged(p, "oauth_access_tokens.Create") IN
    IF fails
    THEN Out(w, Respond(q, 500, [error |-> "server_error"]))
    ELSE Out([w EXCEPT
                !.db.access_tokens = Create(@,
                    AccessTokenModel(p.accessToken, p.req.client_id,
                                     p.refreshTokenModel, t)),
                !.hist.refreshes = @ \cup {<<p.refreshTokenModel.Token,
                                             p.accessToken>>}],
             Respond(q, 200, [access_token |-> p.accessToken,
                              token_type   |-> "Bearer",
                              expires_in   |-> ExpiresIn,
                              scope        |-> p.refreshTokenModel.Scope]))

\* One step of the token handler at time t; fails says whether the
\* operation this step performs (a store write, the generator) fails.
TokenStep(w, p, t, fails) ==
    CASE p.pc = "Token"         -> TokenEntry(w, p)
      [] p.pc = "CodeLookup"    -> CodeLookup(w, p, t)
      [] p.pc = "MarkUsed"      -> MarkUsed(w, p, fails)
      [] p.pc = "GenTokens"     -> GenTokens(w, p, fails)
      [] p.pc = "CreateAccess"  -> CreateAccess(w, p, t, fails)
      [] p.pc = "CreateRefresh" -> CreateRefresh(w, p, t, fails)
      [] p.pc = "RefreshLookup" -> RefreshLookup(w, p, t)
      [] p.pc = "RefreshGen"    -> RefreshGen(w, p, fails)
      [] p.pc = "RefreshCreate" -> RefreshCreate(w, p, t, fails)
      [] OTHER                  -> Out(w, p)

\* The steps at which something outside the handler can fail.
FaultPoints ==
    {"MarkUsed", "GenTokens", "CreateAccess", "CreateRefresh", "RefreshGen",
     "RefreshCreate"}

\* The whole handler, entry to response, with the step failAt failing.
RECURSIVE TokenRun(_, _, _, _)
TokenRun(w, p, t, failAt) ==
    IF p.pc = "done" THEN Out(w, p)
    ELSE LET o == TokenStep(w, p, t, p.pc = failAt)
         IN  TokenRun(o.w, o.p, t, failAt)

(* ------------------------ the other endpoints ------------------------- *)

\* middleware.AuthMiddleware in front of /oauth/authorize and
\* /oauth/authorize/consent: a valid session sets user_id in the context,
\* and its absence is left for the handler to signal.  session is the
\* subject id the request's credentials stand for, 0 if none.
AuthMiddleware(session) == IF session \in Users THEN session ELSE 0

\* Mutant: any redirect URI passes.
ValidRedirectURIAny(client, redirectURI) == TRUE

\* The loop of lines 54-60: an exact match with a registered URI.
ValidRedirectURI(client, redirectURI) ==
    \E i \in 1..Len(client.RedirectURIs) :
        client.RedirectURIs[i] = redirectURI

\* Mutant: the signal names no client.
AuthenticationRequiredBare(clientID, client) ==
    [error |-> "authentication_required",
     login_url |-> FrontendURL \o "/login"]

\* The body of lines 71-76.
AuthenticationRequired(clientID, client) ==
    [error       |-> "authentication_required",
     login_url   |-> FrontendURL \o "/login",
     client_id   |-> clientID,
     client_name |-> client.Name]

\* Authorize, lines 27-89.  It only reads oauth_clients.
AuthorizeRun(p) ==
    LET req == p.req
        userID == AuthMiddleware(req.session)
    IN
    IF req.client_id = "" \/ req.redirect_uri = "" \/ req.response_type # "code"
    THEN Respond(p, 400, [error |-> "Invalid request parameters"])
    ELSE
    LET q == Logged(p, "oauth_clients.First") IN
    IF ~ \E c \in OAuthClients : c.ID = req.client_id
    THEN Respond(q, 400, [error |-> "Invalid client_id"])
    ELSE
    LET client == CHOOSE c \in OAuthClients : c.ID = req.client_id IN
    IF ~ ValidRedirectURI(client, req.redirect_uri)
    THEN Respond(q, 400, [error |-> "Invalid redirect_uri"])
    ELSE IF userID = 0
    THEN Respond(q, 401, AuthenticationRequired(req.client_id, client))
    ELSE Respond(q, 200, [client_id    |-> req.client_id,
                          client_name  |-> client.Name,
                          redirect_uri |-> req.redirect_uri,
                          scope        |-> req.scope,
                          state        |-> req.state,
                          user_id      |-> userID])

\* AutoMigrate gives oauth_authorization_codes.client_id a foreign key on
\* oauth_clients: a row naming no client is refused by the store.
ForeignKeyHolds(row) == \E c \in OAuthClients : c.ID = row.ClientID

\* Lines 130-138.
AuthCode(code, req, userID, t) ==
    [Code |-> code, ClientID |-> req.client_id, UserID |-> userID,
     RedirectURI |-> req.redirect_uri, Scope |-> req.scope,
     ExpiresAt |-> t + CodeTTL, Used |-> FALSE]

\* Mutant: the denial leaves the state out.
DenialRedirectURLNoState(redirectURI, state) ==
    redirectURI \o "?error=access_denied"

\* Lines 116-118.
DenialRedirectURL(redirectURI, state) ==
    redirectURI \o "?error=access_denied&state=" \o state

\* Mutant: the state segment is appended even when state is empty.
ConsentRedirectURLAlwaysState(redirectURI, code, state) ==
    redirectURI \o "?code=" \o code \o "&state=" \o state

\* Lines 145-149.
ConsentRedirectURL(redirectURI, code, state) ==
    IF state # ""
    THEN redirectURI \o "?code=" \o code \o "&state=" \o state
    ELSE redirectURI \o "?code=" \o code

\* AuthorizeConsent, lines 93-154.
AuthorizeConsentRun(w, p, t) ==
    LET req == p.req
        userID == AuthMiddleware(req.session)
        code == GenerateRandomToken(w.rng + 1)
        authCode == AuthCode(code, req, userID, t)
        q == Logged(p, "oauth_authorization_codes.Create")
    IN
    IF req.client_id = "" \/ req.redirect_uri = ""
    THEN Out(w, Respond(p, 400, [error |-> "required"]))
    ELSE IF userID = 0
    THEN Out(w, Respond(p, 401, [error |-> "User not authenticated"]))
    ELSE IF ~ req.approved
    THEN Out(w, Respond(p, 200,
             [redirect_url |-> DenialRedirectURL(req.redirect_uri, req.state)]))
    ELSE IF ~ ForeignKeyHolds(authCode)
    THEN \* The code is dropped unseen: the generator's next output is as
         \* fresh as this one was, so it is not counted.
         Out(w, Respond(q, 500,
                    [error |-> "Failed to create authorization code"]))
    ELSE Out([w EXCEPT !.rng = @ + 1,
                       !.db.authorization_codes = Create(@, authCode)],
             Respond(q, 200,
                 [redirect_url |->
                      ConsentRedirectURL(req.redirect_uri, code, req.state)]))

\* strings.Split(s, " ") on a header given as its symbols: words and single
\* blanks.  The parts are the runs of words between blanks, joined.
RECURSIVE Split(_)
Split(s) ==
    IF s = <<>> THEN <<"">>
    ELSE LET rest == Split(Tail(s)) IN
         IF Head(s) = " " THEN <<"">> \o rest
         ELSE <<Head(s) \o Head(rest)>> \o Tail(rest)

\* Rows of users, as Preload("User") joins them.
UserRow(id) == [ID |-> id, Email |-> "user" \o ToString(id) \o "@example.com",
                Name |-> "User " \o ToString(id)]

\* Mutant: an access token is still good at the instant it expires.
AccessMatchesAtExpiry(row, token, t) ==
    row.Token = token /\ row.ExpiresAt >= t

\* The WHERE clause of line 311.
AccessMatches(row, token, t) ==
    row.Token = token /\ row.ExpiresAt > t

\* UserInfo, lines 292-321.
UserInfoRun(db, p, t) ==
    LET authHeader == p.req.Authorization
        parts == Split(authHeader)
    IN
    IF authHeader = <<>>
    THEN Respond(p, 401, [error |-> "invalid_request"])
    ELSE IF Len(parts) # 2 \/ parts[1] # "Bearer"
    THEN Respond(p, 401, [error |-> "invalid_request"])
    ELSE
    LET q == Logged(p, "oauth_access_tokens.First")
        table == db.access_tokens
        id == First({k \in 1..Len(table) :
                        AccessMatches(table[k], parts[2], t)})
    IN  IF id = 0
        THEN Respond(q, 401, [error |-> "invalid_token"])
        ELSE LET accessToken == db.access_tokens[id]
                 user == UserRow(accessToken.UserID)
             IN  Respond(q, 200, [sub   |-> accessToken.UserID,
                                  email |-> user.Email,
                                  name  |-> user.Name])

(* ----------------------------- requests ------------------------------- *)

\* The token values issued so far: what a caller can have learnt.
Issued == {GenerateRandomToken(n) : n \in 1..rng}

RedirectURIs == {"https://a/cb", "https://b/cb"}

\* client_id and client_secret as callers send them: right, another
\* client's secret, an unknown client.
Credentials ==
    { <<"app1", "secret1">>, <<"app2", "secret2">>, <<"app1", "secret2">>,
      <<"ghost", "secret1">> }

TokenForm(grant, code, uri, cred, refresh) ==
    [grant_type |-> grant, code |-> code, redirect_uri |-> uri,
     client_id |-> cred[1], client_secret |-> cred[2],
     refresh_token |-> refresh]

CodeGrantRequests ==
    {TokenForm("authorization_code", c, u, cred, "") :
        c \in Issued, u \in RedirectURIs, cred \in Credentials}

RefreshGrantRequests ==
    {TokenForm("refresh_token", "", "", cred, r) :
        r \in Issued, cred \in Credentials}

\* Another grant type, carrying a code and a refresh token all the same.
OtherGrantRequests ==
    {TokenForm("password", c, "https://a/cb", <<"app1", "secret1">>, c) :
        c \in Issued}
    \cup {TokenForm("password", "", "", <<"app1", "secret2">>, "")}

\* Forms that lack a field.
IncompleteRequests ==
    {TokenForm("", "", "https://a/cb", <<"app1", "secret1">>, ""),
     TokenForm("authorization_code", "", "https://a/cb", <<"", "secret1">>, ""),
     TokenForm("authorization_code", "", "https://a/cb", <<"app1", "">>, ""),
     TokenForm("authorization_code", "", "https://a/cb",
               <<"app1", "secret1">>, ""),
     TokenForm("refresh_token", "", "", <<"app1", "secret1">>, "")}
    \cup {TokenForm("authorization_code", c, "", <<"app1", "secret1">>, "") :
            c \in Issued}

TokenRequests ==
    CodeGrantRequests \cup RefreshGrantRequests \cup OtherGrantRequests
    \cup IncompleteRequests

ConsentForm(client, uri, scope, state, approved, session) ==
    [client_id |-> client, redirect_uri |-> uri, scope |-> scope,
     state |-> state, approved |-> approved, session |-> session]

\* Consent decisions for app1: user 1 decides on "read" at the redirect URI
\* app1 has registered, user 2 on "read write", without state, at one it
\* has not; then an unknown client, no session, and bodies that lack a
\* field.
ConsentRequests ==
    {ConsentForm("app1", "https://a/cb", "read", "xyz", a, 1) : a \in BOOLEAN}
    \cup {ConsentForm("app1", "https://b/cb", "read write", "", a, 2) :
            a \in BOOLEAN}
    \cup {ConsentForm("", "https://a/cb", "read", "xyz", FALSE, 1),
          ConsentForm("app1", "https://a/cb", "read", "xyz", FALSE, 0)}
    \cup {ConsentForm("ghost", "https://a/cb", "read", "xyz", TRUE, 1),
          ConsentForm("app1", "https://a/cb", "read", "xyz", TRUE, 0),
          ConsentForm("", "https://a/cb", "read", "xyz", TRUE, 1),
          ConsentForm("app1", "", "read", "xyz", TRUE, 1)}

AuthorizeForm(client, uri, type, session) ==
    [client_id |-> client, redirect_uri |-> uri, response_type |-> type,
     scope |-> "read", state |-> "xyz", session |-> session]

AuthorizeRequests ==
    {AuthorizeForm(c, u, "code", u1) :
        c \in {"app1", "ghost"}, u \in RedirectURIs, u1 \in {0, 1}}
    \cup {AuthorizeForm("app1", "https://a/cb", "token", 1),
          AuthorizeForm("ghost", "https://a/cb", "token", 1),
          AuthorizeForm("", "https://a/cb", "code", 1),
          AuthorizeForm("app1", "", "code", 1)}

UserInfoRequests ==
    {[Authorization |-> h] :
        h \in {<<>>, <<"Bearer">>}
               \cup {<<s, " ", t>> : s \in {"Bearer", "bearer"}, t \in Issued}
               \cup {<<"Bearer", " ", " ", t>> : t \in Issued}}

(* ------------------------------ actions ------------------------------- *)

Goroutines == {1, 2}

Free(i) == procs[i].pc = "idle"

\* The bounds of the model: a request is served only if that keeps the
\* store and the generator within them.
WithinBounds(w) ==
    /\ Len(w.db.authorization_codes) <= MaxCodes
    /\ Len(w.db.access_tokens) <= MaxAccessTokens

Commit(i, o) ==
    /\ WithinBounds(o.w)
    /\ DB' = o.w.db
    /\ rng' = o.w.rng
    /\ hist' = o.w.hist
    /\ procs' = [procs EXCEPT ![i] = o.p]
    /\ UNCHANGED <<now, ticks>>
    /\ UNCHANGED relayVars

\* GET /oauth/authorize, request to response.
Authorize(i) ==
    /\ Free(i)
    /\ \E req \in AuthorizeRequests :
           procs' = [procs EXCEPT ![i] = AuthorizeRun(NewProc("Authorize", req))]
    /\ UNCHANGED <<DB, rng, now, ticks, hist>>
    /\ UNCHANGED relayVars

\* POST /oauth/authorize/consent, request to response.
AuthorizeConsent(i) ==
    /\ Free(i)
    /\ \E req \in ConsentRequests :
           Commit(i, AuthorizeConsentRun(World(DB, rng, hist),
                         NewProc("AuthorizeConsent", req), now))

\* POST /oauth/token for a request of reqs, request to response, with the
\* step failAt failing.
TokenOf(i, reqs, failAt) ==
    /\ Free(i)
    /\ \E req \in reqs :
           Commit(i, TokenRun(World(DB, rng, hist), NewProc("Token", req),
                              now, failAt))

\* POST /oauth/token, request to response, nothing failing.
Token(i) == TokenOf(i, TokenRequests, "none")

\* The exchanges and refreshes of app1 with its own credentials.
OwnRequests ==
    {req \in CodeGrantRequests \cup RefreshGrantRequests :
        req.client_id = "app1" /\ req.client_secret = "secret1"}

\* GET /oauth/userinfo, request to response.
UserInfo(i) ==
    /\ Free(i)
    /\ \E req \in UserInfoRequests :
           procs' = [procs EXCEPT ![i] = UserInfoRun(DB, NewProc("UserInfo", req), now)]
    /\ UNCHANGED <<DB, rng, now, ticks, hist>>
    /\ UNCHANGED relayVars

\* The response is written and the goroutine ends.
Reply(i) ==
    /\ procs[i].pc = "done"
    /\ procs' = [procs EXCEPT ![i] = Idle]
    /\ UNCHANGED <<DB, rng, now, ticks, hist>>
    /\ UNCHANGED relayVars

\* d minutes pass between requests.
Tick(d) ==
    /\ ticks < MaxTicks
    /\ \A i \in Goroutines : procs[i].pc = "idle"
    /\ now' = now + d
    /\ ticks' = ticks + 1
    /\ UNCHANGED <<DB, rng, procs, hist>>
    /\ UNCHANGED relayVars

(* ------------------- the relay: /authorize, /callback ----------------- *)

\* oauthConf, lines 82-91, with the environment main() insists on.
ebayClientID == "ebay-client"
appRedirectURL == "https://ebayai.dev/callback"
ebayClientSecret == "ebay-secret"
ebayTokenURL == "https://api.ebay.com/identity/v1/oauth2/token"

\* EBAY_SCOPES, a space-separated list, as its symbols.
ebayScopes ==
    <<"https://api.ebay.com/oauth/api_scope", " ",
      "https://api.ebay.com/oauth/api_scope/sell.inventory">>

\* oauthConf.Scopes, line 86: strings.Split(ebayScopes, " ").
Scopes == Split(ebayScopes)

\* strings.Join(parts, " ").
RECURSIVE Join(_)
Join(parts) ==
    IF parts = <<>> THEN ""
    ELSE IF Len(parts) = 1 THEN parts[1]
    ELSE parts[1] \o " " \o Join(Tail(parts))
ebayAuthURL == "https://auth.ebay.com/oauth2/authorize"

\* A raw URL is the sequence of its symbols: what stands before "?", then
\* "?", then key "=" value pairs with "&" between them.  url.Parse refuses
\* a raw URL whose first part holds a malformed percent escape.
BadEscapes == {"https://gpt/%zz"}

\* url.Parse of line 166: ok is err == nil.
Parse(raw) ==
    IF raw = <<>> THEN [ok |-> TRUE, Path |-> "", RawQuery |-> <<>>]
    ELSE IF raw[1] \in BadEscapes
    THEN [ok |-> FALSE, Path |-> "", RawQuery |-> <<>>]
    ELSE [ok |-> TRUE, Path |-> raw[1],
          RawQuery |-> IF Len(raw) >= 2 THEN SubSeq(raw, 3, Len(raw)) ELSE <<>>]

\* The key=value pairs of a raw query, in their order.
Pairs(rawQuery) ==
    [n \in 1..((Len(rawQuery) + 1) \div 4) |->
        <<rawQuery[4 * n - 3], rawQuery[4 * n - 1]>>]

\* redirectURL.Query(), line 173: url.Values, each key with its values in
\* the order they appear.
Query(rawQuery) ==
    LET pairs == Pairs(rawQuery)
        at(k) == {n \in 1..Len(pairs) : pairs[n][1] = k}
        RECURSIVE vals(_, _)
        vals(k, from) ==
            IF \A n \in at(k) : n < from THEN <<>>
            ELSE LET n == CHOOSE m \in at(k) :
                              m >= from /\ \A l \in at(k) : l >= from => m <= l
                 IN  <<pairs[n][2]>> \o vals(k, n + 1)
    IN  [k \in {pairs[n][1] : n \in 1..Len(pairs)} |-> vals(k, 1)]

\* q.Set(key, value), lines 174-175: the key's values are replaced.
Set(q, key, value) ==
    [k \in DOMAIN q \cup {key} |-> IF k = key THEN <<value>> ELSE q[k]]

\* The keys the model uses, as sort.Strings orders them.
KeyOrder ==
    <<"a", "access_type", "client_id", "code", "redirect_uri",
      "response_type", "scope", "state", "z">>

\* q.Encode(), line 176: the pairs sorted by key.
RECURSIVE EncodeFrom(_, _)
EncodeFrom(q, n) ==
    IF n > Len(KeyOrder) THEN <<>>
    ELSE LET k == KeyOrder[n]
             here == IF k \in DOMAIN q
                     THEN [m \in 1..Len(q[k]) |-> <<k, q[k][m]>>]
                     ELSE <<>>
         IN  here \o EncodeFrom(q, n + 1)

Encode(q) == EncodeFrom(q, 1)

\* oauthConf.AuthCodeURL(state, oauth2.AccessTypeOffline), line 140.
AuthCodeURL(state) ==
    [Path |-> ebayAuthURL,
     Query |-> Encode([k \in {"response_type", "client_id", "redirect_uri",
                              "scope", "state", "access_type"} |->
                 CASE k = "response_type" -> <<"code">>
                   [] k = "client_id"     -> <<ebayClientID>>
                   [] k = "redirect_uri"  -> <<appRedirectURL>>
                   [] k = "scope"         -> <<Join(Scopes)>>
                   [] k = "state"         -> <<state>>
                   [] k = "access_type"   -> <<"offline">>])]

\* A relay handler goroutine: the request and the handler's locals.
NewRelay(op, req) ==
    [op |-> op, pc |-> op, req |-> req, openAIRedirectURI |-> <<>>,
     resp |-> [status |-> 0]]

RelayIdle == [NewRelay("idle", [state |-> ""]) EXCEPT !.pc = "idle"]

\* http.Error(w, text, status).
Error(p, text, status) ==
    [p EXCEPT !.pc = "done", !.resp = [status |-> status, body |-> text],
              !.openAIRedirectURI = <<>>]

\* http.Redirect(w, r, url, http.StatusTemporaryRedirect).
Redirect(p, url) ==
    [p EXCEPT !.pc = "done", !.resp = [status |-> 307, location |-> url],
              !.openAIRedirectURI = <<>>]

RelayWorld(store, used, over) ==
    [store |-> store, consumed |-> used, superseded |-> over]

\* Mutant: the entry outlives the callback.
DeleteStateKept(store, state) == store

\* Mutant: the callback clears the whole map.
DeleteStateAll(store, state) == [k \in {} |-> <<>>]

\* delete(stateStore, state), line 162.
DeleteState(store, state) ==
    [k \in DOMAIN store \ {state} |-> store[k]]

\* Mutant: only the state is required.
MissingParametersStateOnly(redirectURI, state) == state = ""

\* The test of line 129 on the two query parameters.
MissingParameters(redirectURI, state) == redirectURI = <<>> \/ state = ""

\* Mutant: the first address stored under a state stays.
AssignStateKeepingFirst(store, state, uri) ==
    [k \in DOMAIN store \cup {state} |->
        IF k \in DOMAIN store THEN store[k] ELSE uri]

\* stateStore[state] = openAIRedirectURI, line 136.
AssignState(store, state, uri) ==
    [k \in DOMAIN store \cup {state} |->
        IF k = state THEN uri ELSE store[k]]

\* Mutant: a callback is taken on without a code.
CodeNotFoundNever(code) == FALSE

\* The test of line 150.
CodeNotFound(code) == code = ""

\* One step of handleAuthorize (lines 124-142) or handleCallback (lines
\* 146-180): what the handler does up to and including its next access to
\* stateStore, or up to its response.
RelayStep(w, p) ==
    LET req == p.req IN
    CASE p.pc = "handleAuthorize" ->
            IF MissingParameters(req.redirect_uri, req.state)
            THEN Out(w, Error(p,
                     "Missing required parameters: redirect_uri and state",
                     400))
            ELSE Out(w, [p EXCEPT !.pc = "mapassign"])
      [] p.pc = "mapassign" ->
            Out([w EXCEPT
                   !.store = AssignState(@, req.state, req.redirect_uri),
                   !.consumed = @ \ {req.state},
                   !.superseded =
                       IF req.state \notin DOMAIN w.store
                       THEN @ \ {req.state}
                       ELSE IF w.store[req.state] # req.redirect_uri
                       THEN @ \cup {req.state}
                       ELSE @],
                Redirect(p, AuthCodeURL(req.state)))
      [] p.pc = "handleCallback" ->
            IF CodeNotFound(req.code)
            THEN Out(w, Error(p, "Code not found", 400))
            ELSE Out(w, [p EXCEPT !.pc = "mapaccess"])
      [] p.pc = "mapaccess" ->
            IF req.state \notin DOMAIN w.store
            THEN Out(w, Error(p, "Invalid state", 400))
            ELSE Out(w, [p EXCEPT !.openAIRedirectURI = w.store[req.state],
                                  !.pc = "mapdelete"])
      [] p.pc = "mapdelete" ->
            Out([w EXCEPT !.store = DeleteState(@, req.state),
                          !.consumed = @ \cup {req.state}],
                [p EXCEPT !.pc = "Parse"])
      [] p.pc = "Parse" ->
            LET redirectURL == Parse(p.openAIRedirectURI) IN
            IF ~ redirectURL.ok
            THEN Out(w, Error(p, "Invalid redirect_uri", 500))
            ELSE LET q == Set(Set(Query(redirectURL.RawQuery),
                                  "code", req.code), "state", req.state)
                 IN  Out(w, Redirect(p, [Path  |-> redirectURL.Path,
                                         Query |-> Encode(q)]))
      [] OTHER -> Out(w, p)

\* A whole relay handler, request to response.
RECURSIVE RelayRun(_, _)
RelayRun(w, p) ==
    IF p.pc = "done" THEN Out(w, p)
    ELSE LET o == RelayStep(w, p) IN RelayRun(o.w, o.p)

\* The states and return addresses callers send: a plain address, one with
\* a query of its own, one whose query already names code and state, one
\* url.Parse refuses, and none.
RelayStates == {"s1", "s2"}

ReturnAddresses ==
    { <<"https://gpt/cb">>,
      <<"https://gpt/cb", "?", "z", "=", "9", "&", "a", "=", "1">>,
      <<"https://gpt/cb", "?", "state", "=", "old", "&", "code", "=", "old">>,
      <<"https://gpt/%zz">> }

RelayAuthorizeRequests ==
    {[redirect_uri |-> r, state |-> s] :
        r \in ReturnAddresses \cup {<<>>}, s \in RelayStates \cup {""}}

RelayCallbackRequests ==
    {[code |-> c, state |-> s] :
        c \in {"c1", "c2", ""}, s \in RelayStates \cup {""}}

RelayCommit(i, o) ==
    /\ stateStore' = o.w.store
    /\ consumed' = o.w.consumed
    /\ superseded' = o.w.superseded
    /\ relay' = [relay EXCEPT ![i] = o.p]
    /\ UNCHANGED provider

\* GET /authorize, request to response.
handleAuthorize(i) ==
    /\ relay[i].pc = "idle"
    /\ \E req \in RelayAuthorizeRequests :
          RelayCommit(i, RelayRun(RelayWorld(stateStore, consumed, superseded),
                                  NewRelay("handleAuthorize", req)))

\* GET /callback, request to response.
handleCallback(i) ==
    /\ relay[i].pc = "idle"
    /\ \E req \in RelayCallbackRequests :
          RelayCommit(i, RelayRun(RelayWorld(stateStore, consumed, superseded),
                                  NewRelay("handleCallback", req)))

\* The response is written and the goroutine ends.
RelayReply(i) ==
    /\ relay[i].pc = "done"
    /\ relay' = [relay EXCEPT ![i] = RelayIdle]
    /\ UNCHANGED <<stateStore, consumed, superseded>>
    /\ UNCHANGED provider

(* -------------------------- the relay: /token ------------------------- *)

\* base64.StdEncoding.EncodeToString, line 246.
Base64(text) == "base64(" \o text \o ")"

\* JSON values: a string by its content, a number by its literal.
JSONString(v) == [t |-> "string", v |-> v]
JSONNumber(lit) == [t |-> "number", v |-> lit]

\* A body is a JSON object, given by its members in their order and the
\* number of bytes of white space between its tokens, or some other text.
Object(members, pad) ==
    [kind |-> "object", text |-> "", members |-> members, pad |-> pad]

Text(text) == [kind |-> "text", text |-> text, members |-> <<>>, pad |-> 0]

\* len(body): the bytes of the object's braces, members, colons, commas
\* and white space, or of the text.
RECURSIVE MemberBytes(_)
MemberBytes(members) ==
    IF members = <<>> THEN 0
    ELSE LET key == Head(members)[1]
             value == Head(members)[2]
         IN  Len(key) + 3
             + (IF value.t = "string" THEN Len(value.v) + 2 ELSE Len(value.v))
             + (IF Len(members) > 1 THEN 1 ELSE 0)
             + MemberBytes(Tail(members))

Bytes(body) ==
    IF body.kind = "object" THEN 2 + MemberBytes(body.members) + body.pad
    ELSE Len(body.text)

\* A JSON number decoded into interface{} is a float64, and json.Marshal
\* prints a float64 by its shortest decimal: an integer that has more than
\* 53 significant bits comes back as the nearest float64.
Float64(lit) ==
    IF lit = "1730700000000000001" THEN "1730700000000000000" ELSE lit

\* Mutant: whatever the body is, it decodes, to what members it has.
UnmarshalAnything(body) ==
    [ok |-> TRUE,
     map |-> [k \in {body.members[n][1] : n \in 1..Len(body.members)} |->
                 JSONString("")]]

\* json.Unmarshal(bodyBytes, &tokenResponse), line 283: ok is err == nil.
Unmarshal(body) ==
    LET keys == {body.members[n][1] : n \in 1..Len(body.members)}
        last(k) == CHOOSE n \in 1..Len(body.members) :
                      /\ body.members[n][1] = k
                      /\ \A m \in 1..Len(body.members) :
                            body.members[m][1] = k => m <= n
        decoded(value) ==
            IF value.t = "number" THEN JSONNumber(Float64(value.v))
            ELSE value
    IN  [ok  |-> body.kind = "object",
         map |-> [k \in keys |-> decoded(body.members[last(k)][2])]]

\* The member names the model uses, as json.Marshal sorts map keys.
MemberOrder ==
    <<"access_token", "error", "expires_in", "issued_at", "refresh_token",
      "token_type">>

\* json.Marshal(tokenResponse), line 300: the members sorted by key, no
\* white space.
RECURSIVE MarshalFrom(_, _)
MarshalFrom(map, n) ==
    IF n > Len(MemberOrder) THEN <<>>
    ELSE (IF MemberOrder[n] \in DOMAIN map
          THEN <<<<MemberOrder[n], map[MemberOrder[n]]>>>>
          ELSE <<>>) \o MarshalFrom(map, n + 1)

Marshal(map) == Object(MarshalFrom(map, 1), 0)

\* copyHeaders(dst, src), lines 470-476.
copyHeaders(dst, src) ==
    [k \in DOMAIN dst \cup DOMAIN src |->
        (IF k \in DOMAIN dst THEN dst[k] ELSE <<>>)
        \o (IF k \in DOMAIN src THEN src[k] ELSE <<>>)]

\* http.Header.Set and url.Values.Set.
HeaderSet(h, key, value) ==
    [k \in DOMAIN h \cup {key} |-> IF k = key THEN <<value>> ELSE h[k]]

NoHeader == [k \in {} |-> <<>>]

\* w.WriteHeader(status) and w.Write(body) under the headers h.
Write(p, status, h, body) ==
    [p EXCEPT !.pc = "done",
              !.resp = [status |-> status, header |-> h, body |-> body]]

\* Lines 311-316.
SendModified(p, resp, modifiedBody) ==
    LET h1 == copyHeaders(NoHeader, resp.header)
        h2 == HeaderSet(h1, "Content-Type", "application/json")
        h3 == HeaderSet(h2, "Content-Length", ToString(Bytes(modifiedBody)))
    IN  Write(p, resp.status, h3, modifiedBody)

\* Lines 273-276, 286-289: the upstream response as it came.
SendAsIs(p, resp) ==
    Write(p, resp.status, copyHeaders(NoHeader, resp.header), resp.body)

\* Mutant: the caller's redirect_uri is sent on with the code.
CodeFormCallers(req) ==
    HeaderSet(HeaderSet(HeaderSet(NoHeader,
        "grant_type", "authorization_code"),
        "code", req.code),
        "redirect_uri", req.redirect_uri)

\* Lines 219-224.
CodeForm(req) ==
    HeaderSet(HeaderSet(HeaderSet(NoHeader,
        "grant_type", "authorization_code"),
        "code", req.code),
        "redirect_uri", appRedirectURL)

\* Mutant: the caller's scope is sent on with the refresh token.
RefreshFormCallers(req) ==
    HeaderSet(HeaderSet(HeaderSet(HeaderSet(NoHeader,
        "grant_type", "refresh_token"),
        "refresh_token", req.refresh_token),
        "redirect_uri", appRedirectURL),
        "scope", req.scope)

\* Lines 211-217.
RefreshForm(req) ==
    HeaderSet(HeaderSet(HeaderSet(HeaderSet(NoHeader,
        "grant_type", "refresh_token"),
        "refresh_token", req.refresh_token),
        "redirect_uri", appRedirectURL),
        "scope", Join(Scopes))

\* Lines 234-250: the request to eBay's token endpoint.
ProxyReq(formData) ==
    [method |-> "POST", url |-> ebayTokenURL,
     header |-> HeaderSet(HeaderSet(NoHeader,
                   "Authorization",
                   "Basic " \o Base64(ebayClientID \o ":" \o ebayClientSecret)),
                   "Content-Type", "application/x-www-form-urlencoded"),
     form |-> formData]

NoRequest == [method |-> ""]

NoResponse == [failure |-> "none"]

\* Mutant: only a server error counts as an error.
IsErrorServerOnly(status) == status >= 500

\* Line 271.
IsError(status) == status >= 400

\* Lines 253-317: what handleToken does with what client.Do returns, kept
\* in resp as the handler keeps it.
Relayed(q, resp) ==
    LET p == [q EXCEPT !.ebayResp = resp] IN
    IF resp.failure = "Do"
    THEN Error(p, "Failed to send request to token endpoint", 502)
    ELSE IF resp.failure = "ReadAll"
    THEN Error(p, "Failed to read token response", 500)
    ELSE IF IsError(resp.status) THEN SendAsIs(p, resp)
    ELSE LET parsed == Unmarshal(resp.body) IN
         IF ~ parsed.ok THEN SendAsIs(p, resp)
         ELSE LET tokenResponse ==
                      IF "token_type" \in DOMAIN parsed.map
                      THEN [parsed.map EXCEPT
                               !["token_type"] = JSONString("Bearer")]
                      ELSE parsed.map
              IN  SendModified(p, resp, Marshal(tokenResponse))

\* Mutant: the grant type alone chooses the exchange, and a grant type
\* that is neither of the two is refused.
handleTokenRunByGrantType(req, resp) ==
    LET p == NewRelay("handleToken", req)
             @@ [proxyReq |-> NoRequest, ebayResp |-> NoResponse]
    IN
    IF req.method # "POST" THEN Error(p, "Method not allowed", 405)
    ELSE IF req.malformed
    THEN Error(p, "Failed to parse request body", 400)
    ELSE IF req.grant_type = "refresh_token" /\ req.refresh_token # ""
    THEN Relayed([p EXCEPT !.proxyReq = ProxyReq(RefreshForm(req))], resp)
    ELSE IF req.grant_type = "authorization_code" /\ req.code # ""
    THEN Relayed([p EXCEPT !.proxyReq = ProxyReq(CodeForm(req))], resp)
    ELSE Error(p, "Missing required parameters", 400)

\* handleToken, lines 185-318, with resp what the upstream does when it is
\* asked.
handleTokenRun(req, resp) ==
    LET p == NewRelay("handleToken", req)
             @@ [proxyReq |-> NoRequest, ebayResp |-> NoResponse]
    IN
    IF req.method # "POST" THEN Error(p, "Method not allowed", 405)
    ELSE IF req.malformed
    THEN Error(p, "Failed to parse request body", 400)
    ELSE IF req.grant_type = "refresh_token" /\ req.refresh_token # ""
    THEN Relayed([p EXCEPT !.proxyReq = ProxyReq(RefreshForm(req))], resp)
    ELSE IF req.code # ""
    THEN Relayed([p EXCEPT !.proxyReq = ProxyReq(CodeForm(req))], resp)
    ELSE Error(p, "Missing required parameters", 400)

\* What OpenAI's backend posts.  It may add a redirect_uri, a scope and
\* client credentials of its own.
RelayTokenForm(method, malformed, grant, code, refresh, own) ==
    [method |-> method, malformed |-> malformed, grant_type |-> grant,
     code |-> code, refresh_token |-> refresh,
     redirect_uri  |-> IF own THEN "https://gpt/cb" ELSE "",
     scope         |-> IF own THEN "caller.scope" ELSE "",
     client_id     |-> IF own THEN "caller-id" ELSE "",
     client_secret |-> IF own THEN "caller-secret" ELSE ""]

RelayTokenRequests ==
    {RelayTokenForm("POST", FALSE, g, c, r, own) :
        g \in {"authorization_code", "refresh_token", "password", ""},
        c \in {"", "c1"}, r \in {"", "r1"}, own \in BOOLEAN}
    \cup {RelayTokenForm("GET", FALSE, "authorization_code", "c1", "", FALSE),
          RelayTokenForm("POST", TRUE, "authorization_code", "c1", "", FALSE)}

\* Bodies of eBay's token endpoint: a token response as eBay spells it,
\* pretty-printed, without token_type, with a number of more than 53 bits,
\* an error that names a token_type, and one that is no JSON.
UpstreamBodies ==
    { Object(<<<<"access_token", JSONString("x")>>,
               <<"token_type", JSONString("User Access Token")>>,
               <<"expires_in", JSONNumber("7200")>>>>, 0),
      Object(<<<<"token_type", JSONString("User Access Token")>>,
               <<"refresh_token", JSONString("r2")>>,
               <<"access_token", JSONString("x")>>>>, 8),
      Object(<<<<"access_token", JSONString("x")>>,
               <<"expires_in", JSONNumber("7200")>>>>, 0),
      Object(<<<<"access_token", JSONString("x")>>,
               <<"issued_at", JSONNumber("1730700000000000001")>>,
               <<"token_type", JSONString("Bearer")>>>>, 0),
      Object(<<<<"error", JSONString("invalid_grant")>>,
               <<"token_type", JSONString("User Access Token")>>>>, 2),
      Text("Service Unavailable") }

UpstreamStatuses == {200, 201, 400, 401, 503}

\* What client.Do and io.ReadAll return: a response, with or without a
\* Content-Length of its own, or an error.
Upstream(status, body, sized) ==
    [failure |-> "", status |-> status, body |-> body,
     header |-> IF sized
                THEN HeaderSet(HeaderSet(NoHeader,
                         "Content-Type", "application/json;charset=UTF-8"),
                         "Content-Length", ToString(Bytes(body)))
                ELSE HeaderSet(NoHeader, "X-Ebay-Request-Id", "ri1")]

UpstreamFailure(what) ==
    [failure |-> what, status |-> 0, body |-> Text(""), header |-> NoHeader]

UpstreamResponses ==
    {Upstream(st, b, sized) :
        st \in UpstreamStatuses, b \in UpstreamBodies, sized \in BOOLEAN}
    \cup {UpstreamFailure("Do"), UpstreamFailure("ReadAll")}

\* POST /token, request to response.
handleToken(i) ==
    /\ relay[i].pc = "idle"
    /\ \E req \in RelayTokenRequests : \E resp \in UpstreamResponses :
          relay' = [relay EXCEPT ![i] = handleTokenRun(req, resp)]
    /\ UNCHANGED <<stateStore, consumed, superseded>>
    /\ UNCHANGED provider

(* -------------------------- the relay: /proxy ------------------------- *)

\* EBAY_API_HOST, line 56.
ebayAPIHost == "api.ebay.com"

\* strings.ToLower of line 333 on the words the model's headers are made of.
ToLower(word) ==
    CASE word \in {"Bearer", "BEARER", "bearer"} -> "bearer"
      [] word = "Basic" -> "basic"
      [] OTHER -> word

\* A path is the sequence of its pieces, a percent escape being a piece of
\* its own.  Unescaping puts for each escape what it stands for.
PathUnescape(path) ==
    [n \in 1..Len(path) |->
        CASE path[n] = "%2F" -> "/"
          [] path[n] = "%20" -> " "
          [] OTHER -> path[n]]

\* The escaping net/url gives a path: a blank is escaped, a slash needs no
\* escape.
PathEscape(path) ==
    [n \in 1..Len(path) |-> IF path[n] = " " THEN "%20" ELSE path[n]]

\* The string a sequence of pieces spells.
RECURSIVE Concat(_)
Concat(pieces) ==
    IF pieces = <<>> THEN "" ELSE Head(pieces) \o Concat(Tail(pieces))

\* r.URL of lines 358 and 370, as net/http parses the request line: Path
\* is the decoded path, and RawPath keeps the path as it was sent only
\* when that is not how Path would be escaped.
RequestURL(path, rawQuery) ==
    LET decoded == PathUnescape(path) IN
    [Path |-> decoded,
     RawPath |-> IF Concat(PathEscape(decoded)) = Concat(path)
                 THEN <<>> ELSE path,
     RawQuery |-> rawQuery]

\* URL.EscapedPath(), which the transport writes on the request line:
\* RawPath if it is an escaping of Path, else Path escaped anew.
EscapedPath(u) ==
    IF u.RawPath # <<>> /\ Concat(PathUnescape(u.RawPath)) = Concat(u.Path)
    THEN u.RawPath
    ELSE PathEscape(u.Path)

\* strings.TrimPrefix(path, prefix), line 358, prefix being a piece.
TrimPrefix(path, prefix) ==
    IF path # <<>> /\ Head(path) = prefix THEN Tail(path) ELSE path

\* The headers lines 384-394 delete, in their order.
StrippedHeaders ==
    <<"Cookie", "Openai-Conversation-Id", "Openai-Ephemeral-User-Id",
      "Openai-Gpt-Id", "Traceparent", "Tracestate", "X-Datadog-Parent-Id",
      "X-Datadog-Sampling-Priority", "X-Datadog-Tags", "X-Datadog-Trace-Id",
      "X-Request-Id">>

\* http.Header.Del for each of keys in turn.
RECURSIVE DelAll(_, _)
DelAll(h, keys) ==
    IF keys = <<>> THEN h
    ELSE DelAll([k \in DOMAIN h \ {Head(keys)} |-> h[k]], Tail(keys))

\* proxy.Director, lines 361-409, on the clone of r that ReverseProxy
\* hands it.  Path is set and RawPath is left as r had it.
Director(r, accessToken) ==
    LET url == RequestURL(r.path, r.rawQuery)
        strippedPath == TrimPrefix(url.Path, "/proxy")
        h1 == HeaderSet(r.header, "Authorization", "Bearer " \o accessToken)
        h2 == HeaderSet(h1, "Accept", "application/json")
        h3 == HeaderSet(h2, "Content-Type", "application/json")
        h4 == DelAll(h3, StrippedHeaders)
        h5 == HeaderSet(h4, "User-Agent", "eBay-Proxy/1.0")
    IN  [method |-> r.method, scheme |-> "https", host |-> ebayAPIHost,
         URL |-> [Path |-> strippedPath, RawPath |-> url.RawPath,
                  RawQuery |-> r.rawQuery],
         header |-> h5, body |-> r.body]

\* The request ReverseProxy's transport writes for outreq: the path as
\* EscapedPath gives it, and the caller's address added to
\* X-Forwarded-For.
OnTheWire(outreq, remoteAddr) ==
    [method |-> outreq.method, scheme |-> outreq.scheme,
     host |-> outreq.host,
     path |-> Concat(EscapedPath(outreq.URL)),
     rawQuery |-> outreq.URL.RawQuery,
     header |-> HeaderSet(outreq.header, "X-Forwarded-For",
                   IF "X-Forwarded-For" \in DOMAIN outreq.header
                   THEN outreq.header["X-Forwarded-For"][1] \o ", "
                            \o remoteAddr
                   ELSE remoteAddr),
     body |-> outreq.body]

\* What the round trip of line 443 gives: a response whose body comes in
\* chunks, of which read arrive before the connection ends, or an error
\* of the transport.
APIResponse(status, body, read) ==
    [failure |-> "", status |-> status,
     header |-> HeaderSet(NoHeader, "Content-Type", "application/json"),
     body |-> body, read |-> read]

\* io.ReadAll(resp.Body), line 418, and the copy ReverseProxy makes of a
\* body: the bytes that arrive, and whether the body ended before its end.
ReadAll(resp) ==
    [err |-> resp.read < Len(resp.body),
     bytes |-> Concat(SubSeq(resp.body, 1, resp.read))]

\* Mutant: the body of an error is not read before it is passed on.
ModifyResponseUnread(resp) == [err |-> FALSE, resp |-> resp]

\* proxy.ModifyResponse, lines 412-430.
ModifyResponse(resp) ==
    IF resp.status >= 400
    THEN LET r == ReadAll(resp) IN
         IF r.err THEN [err |-> TRUE, resp |-> resp]
         ELSE [err |-> FALSE,
               resp |-> [resp EXCEPT !.body = <<r.bytes>>, !.read = 1]]
    ELSE [err |-> FALSE, resp |-> resp]

\* proxy.ErrorHandler, lines 433-438.
ErrorHandler(p, err) == Error(p, "Proxy error: " \o err, 502)

\* ReverseProxy copies the response to the caller: headers, status, then
\* the body as it arrives; a body that ends early aborts the response.
CopyResponse(p, resp) ==
    LET r == ReadAll(resp) IN
    [p EXCEPT !.pc = "done",
              !.resp = [status |-> resp.status,
                        header |-> copyHeaders(NoHeader, resp.header),
                        body |-> r.bytes, aborted |-> r.err]]

\* Mutant: a round trip that fails is tried once more.
ServeHTTPRetrying(p, outreq, upstream) ==
    LET wire == OnTheWire(outreq, p.req.remoteAddr)
        q == [p EXCEPT !.sent = Append(@, wire), !.ebayResp = upstream]
    IN  IF upstream.failure # ""
        THEN ErrorHandler([q EXCEPT !.sent = Append(@, wire)],
                          upstream.failure)
        ELSE LET m == ModifyResponse(upstream) IN
             IF m.err THEN ErrorHandler(q, "unexpected EOF")
             ELSE CopyResponse(q, m.resp)

\* proxy.ServeHTTP(w, r), line 443: one round trip, then ErrorHandler on
\* its error or on ModifyResponse's, else the response is copied.
ServeHTTP(p, outreq, upstream) ==
    LET q == [p EXCEPT !.sent = Append(@, OnTheWire(outreq, p.req.remoteAddr)),
                       !.ebayResp = upstream]
    IN  IF upstream.failure # "" THEN ErrorHandler(q, upstream.failure)
        ELSE LET m == ModifyResponse(upstream) IN
             IF m.err THEN ErrorHandler(q, "unexpected EOF")
             ELSE CopyResponse(q, m.resp)

\* handleProxy, lines 324-446.  sent is what has gone upstream.
handleProxyRun(r, upstream) ==
    LET p == NewRelay("handleProxy", r)
             @@ [sent |-> <<>>, ebayResp |-> NoResponse]
        authHeader == r.Authorization
        parts == Split(authHeader)
    IN
    IF authHeader = <<>>
    THEN Error(p, "Authorization header required", 401)
    ELSE IF Len(parts) # 2 \/ ToLower(parts[1]) # "bearer"
    THEN Error(p, "Invalid Authorization header: must be 'Bearer {token}'",
               401)
    ELSE ServeHTTP(p, Director(r, parts[2]), upstream)

\* What callers send.  Authorization headers as their symbols: none, a
\* bearer token under three spellings of the scheme, another scheme, a
\* scheme alone, two blanks, an empty token and a token alone.  Paths under
\* the mux pattern /proxy/ of line 99: a plain one, one that names /proxy
\* twice, and two with an escaped octet in a SKU.  The headers of a bare
\* GET, and those of a POST as ChatGPT sends it.
ProxyRequests ==
    LET authorizations ==
            { <<>>,
              <<"Bearer", " ", "tokA">>,
              <<"bearer", " ", "tokA">>,
              <<"BEARER", " ", "tokA">>,
              <<"Basic", " ", "dXNlcjpwdw">>,
              <<"Bearer">>,
              <<"Bearer", " ", " ", "tokA">>,
              <<"Bearer", " ">>,
              <<"tokA">> }
        paths ==
            { <<"/proxy", "/sell/inventory/v1/inventory_item">>,
              <<"/proxy", "/proxy", "/x">>,
              <<"/proxy", "/sell/inventory/v1/inventory_item/",
                "A", "%2F", "B">>,
              <<"/proxy", "/sell/inventory/v1/inventory_item/",
                "A", "%20", "B">> }
        bare == HeaderSet(NoHeader, "Accept", "*/*")
        chatGPT ==
            [k \in {"Accept", "Content-Type", "User-Agent", "X-Custom"}
                   \cup SeqToSet(StrippedHeaders) |->
                CASE k = "Accept" -> <<"text/html">>
                  [] k = "Content-Type" -> <<"text/plain">>
                  [] k = "User-Agent" -> <<"ChatGPT-User/1.0">>
                  [] k = "Cookie" -> <<"session=abc">>
                  [] OTHER -> <<"v-" \o k>>]
    IN  {[method |-> m.method, path |-> path, rawQuery |-> q,
          Authorization |-> a, header |-> m.header, body |-> m.body,
          remoteAddr |-> "203.0.113.7"] :
            m \in {[method |-> "GET", header |-> bare, body |-> ""],
                   [method |-> "POST", header |-> chatGPT,
                    body |-> "{\"sku\":\"A\"}"]},
            path \in paths, q \in {"", "limit=2&offset=0"},
            a \in authorizations}

TransportFailures ==
    {"dial tcp: lookup api.ebay.com: no such host",
     "net/http: TLS handshake timeout",
     "net/http: timeout awaiting response headers",
     "dial tcp: connect: connection refused"}

\* What the resource API may do: answer 200, 404 or 500 with no body or
\* with one that comes in two chunks, the connection ending after any
\* number of them, or not be reached.
APIResponses ==
    LET bodies == { <<>>, <<"{\"errors\":[{\"errorId\":25002,",
                           "\"message\":\"x\"}]}">> }
    IN  UNION {{APIResponse(st, b, n) : n \in 0..Len(b)} :
                  st \in {200, 404, 500}, b \in bodies}
        \cup {[failure |-> what, status |-> 0, header |-> NoHeader,
               body |-> <<>>, read |-> 0] : what \in TransportFailures}

\* ANY /proxy/..., request to response.
handleProxy(i) ==
    /\ relay[i].pc = "idle"
    /\ \E r \in ProxyRequests : \E upstream \in APIResponses :
          relay' = [relay EXCEPT ![i] = handleProxyRun(r, upstream)]
    /\ UNCHANGED <<stateStore, consumed, superseded>>
    /\ UNCHANGED provider

InitRelay ==
    /\ stateStore = <<>>
    /\ relay = [i \in Goroutines |-> RelayIdle]
    /\ consumed = {}
    /\ superseded = {}

\* The state after construction: AutoMigrate has made the empty tables.
InitProvider ==
    /\ DB = [authorization_codes |-> <<>>, access_tokens |-> <<>>,
             refresh_tokens |-> <<>>]
    /\ rng = 0
    /\ now = 0
    /\ ticks = 0
    /\ procs = [i \in Goroutines |-> Idle]
    /\ hist = [grants |-> {}, minted |-> {}, refreshes |-> {}]

Init == InitProvider /\ InitRelay

vars ==
    <<DB, rng, now, ticks, procs, hist, stateStore, relay, consumed,
      superseded>>

\* Consent and the token endpoint, serving one request at a time over a
\* store that works, while codes and refresh tokens age.
Next ==
    \/ AuthorizeConsent(1)
    \/ Token(1)
    \/ Reply(1)
    \/ Tick(CodeTTL)
    \/ Tick(RefreshTTL)

Spec == Init /\ [][Next]_vars

\* The endpoints a user agent and a resource call reach, one request at a
\* time, with app1 exchanging and refreshing, while codes and access
\* tokens age.
NextFront ==
    \/ Authorize(1)
    \/ AuthorizeConsent(1)
    \/ TokenOf(1, OwnRequests, "none")
    \/ UserInfo(1)
    \/ Reply(1)
    \/ Tick(CodeTTL)
    \/ Tick(AccessTTL)

SpecFront == Init /\ [][NextFront]_vars

\* The code exchanges of app1 with its own credentials.
ExchangeRequests ==
    {req \in OwnRequests : req.grant_type = "authorization_code"}

\* gin hands a POST /oauth/token to a goroutine of its own, which enters
\* Token.
Receive(i) ==
    /\ Free(i)
    /\ \E req \in ExchangeRequests :
           procs' = [procs EXCEPT ![i] = NewProc("Token", req)]
    /\ UNCHANGED <<DB, rng, now, ticks, hist>>
    /\ UNCHANGED relayVars

\* Goroutine i performs the next store operation of its handler; the
\* other goroutine may perform its own between any two of them.
Step(i) ==
    /\ procs[i].pc \notin {"idle", "done"}
    /\ Commit(i, TokenStep(World(DB, rng, hist), procs[i], now, FALSE))

\* Two token requests in flight at once over a store that works, with
\* consent given in between.
NextConc ==
    \/ AuthorizeConsent(1)
    \/ Receive(1)
    \/ Receive(2)
    \/ Step(1)
    \/ Step(2)
    \/ Reply(1)
    \/ Reply(2)

SpecConc == Init /\ [][NextConc]_vars

\* POST /oauth/token with a code, request to response, one request at a
\* time, where any one of the handler's store writes or generator calls
\* may fail.
TokenFault(i) ==
    \E failAt \in FaultPoints : TokenOf(i, ExchangeRequests, failAt)

NextFault ==
    \/ AuthorizeConsent(1)
    \/ TokenFault(1)
    \/ Reply(1)
    \/ Tick(CodeTTL)

SpecFault == Init /\ [][NextFault]_vars

\* The relay serving one request at a time.
NextRelay ==
    \/ handleAuthorize(1)
    \/ handleCallback(1)
    \/ RelayReply(1)

SpecRelay == Init /\ [][NextRelay]_vars

\* The relay's token endpoint serving one request at a time.
NextRelayToken ==
    \/ handleToken(1)
    \/ RelayReply(1)

SpecRelayToken == Init /\ [][NextRelayToken]_vars

\* The relay's proxy endpoint serving one request at a time.
NextRelayProxy ==
    \/ handleProxy(1)
    \/ RelayReply(1)

SpecRelayProxy == Init /\ [][NextRelayProxy]_vars

\* The four handlers of the mux, lines 96-99, one request at a time.
NextRelayAll ==
    \/ handleAuthorize(1)
    \/ handleCallback(1)
    \/ handleToken(1)
    \/ handleProxy(1)
    \/ RelayReply(1)

SpecRelayAll == Init /\ [][NextRelayAll]_vars

\* net/http hands a relay request to a goroutine of its own.
RelayReceive(i) ==
    /\ relay[i].pc = "idle"
    /\ \/ \E req \in RelayAuthorizeRequests :
              relay' = [relay EXCEPT ![i] = NewRelay("handleAuthorize", req)]
       \/ \E req \in RelayCallbackRequests :
              relay' = [relay EXCEPT ![i] = NewRelay("handleCallback", req)]
    /\ UNCHANGED <<stateStore, consumed, superseded>>
    /\ UNCHANGED provider

\* Goroutine i runs on to its next access to stateStore or to its
\* response; nothing orders it with the other goroutine.
RelayStepOf(i) ==
    /\ relay[i].pc \notin {"idle", "done", "fatal"}
    /\ RelayCommit(i, RelayStep(RelayWorld(stateStore, consumed, superseded), relay[i]))

\* The accesses to the map: line 136 writes, line 156 reads, line 162
\* deletes.
WritePcs == {"mapassign", "mapdelete"}

AccessPcs == WritePcs \cup {"mapaccess"}

\* Goroutines i and j are each at an access to stateStore, one of them a
\* write or a delete, and no lock or channel orders the two.
Racing(i, j) ==
    /\ i # j
    /\ relay[i].pc \in AccessPcs
    /\ relay[j].pc \in AccessPcs
    /\ relay[i].pc \in WritePcs \/ relay[j].pc \in WritePcs

\* A racing access to a Go map may be caught by the runtime, which then
\* ends the process ("fatal error: concurrent map writes"); uncaught, the
\* accesses take effect in one order or the other, as RelayStepOf has it.
Throw ==
    /\ \E i, j \in Goroutines : Racing(i, j)
    /\ relay' = [i \in Goroutines |-> [relay[i] EXCEPT !.pc = "fatal"]]
    /\ UNCHANGED <<stateStore, consumed, superseded>>
    /\ UNCHANGED provider

\* The relay with two requests in flight at once.
NextRelayConc ==
    \/ RelayReceive(1)
    \/ RelayReceive(2)
    \/ RelayStepOf(1)
    \/ RelayStepOf(2)
    \/ RelayReply(1)
    \/ RelayReply(2)
    \/ Throw

SpecRelayConc == Init /\ [][NextRelayConc]_vars

(* ------------------- claims on the token endpoint --------------------- *)

\* Goroutine i takes a request for op and answers it in this step.
Served(i, op) ==
    /\ procs[i].pc = "idle"
    /\ procs'[i].pc = "done"
    /\ procs'[i].op = op

\* Goroutine i has answered a request for op and not yet gone.
Answered(i, op) == procs[i].pc = "done" /\ procs[i].op = op

ValidCredentials(req) ==
    \E c \in OAuthClients :
        c.ID = req.client_id /\ c.ClientSecret = req.client_secret

InvalidGrant == [status |-> 400, body |-> [error |-> "invalid_grant"]]

Codes == SeqToSet(DB.authorization_codes)

\* The codes a token response has been given for.
Exchanged == {g[1] : g \in hist.grants}

NothingMinted ==
    /\ DB'.access_tokens = DB.access_tokens
    /\ DB'.refresh_tokens = DB.refresh_tokens

\* A request of the code's own client, authenticated, with the code and
\* the redirect URI the code was issued for.
OwnExchange(req, row) ==
    /\ req.grant_type = "authorization_code"
    /\ req.code = row.Code
    /\ req.client_id = row.ClientID
    /\ req.redirect_uri = row.RedirectURI
    /\ ValidCredentials(req)

\* C1: once a token response has been given for a code, every later token
\* request with that code, by its authenticated client and with its
\* redirect URI, is answered invalid_grant and mints no access or refresh
\* token.
C1_SequentialSingleUse ==
    [][\A i \in Goroutines : \A row \in Codes :
          (/\ Served(i, "Token")
           /\ OwnExchange(procs'[i].req, row)
           /\ row.Code \in Exchanged)
          => (procs'[i].resp = InvalidGrant /\ NothingMinted)]_vars

\* A replay of an exchanged, still unexpired code has been refused.
C1_Witness ==
    \E i \in Goroutines : \E row \in Codes :
        /\ Answered(i, "Token")
        /\ OwnExchange(procs[i].req, row)
        /\ row.Code \in Exchanged
        /\ row.ExpiresAt > now
        /\ procs[i].resp = InvalidGrant

\* C3: a code persisted at time t expires at t + 10 minutes, and a token
\* request by an authenticated client that presents a code at or after its
\* expiry is answered invalid_grant and mints no token.
C3_CodeExpiry ==
    [][\A i \in Goroutines :
          /\ \A row \in Codes :
                (/\ Served(i, "Token")
                 /\ procs'[i].req.grant_type = "authorization_code"
                 /\ procs'[i].req.code = row.Code
                 /\ ValidCredentials(procs'[i].req)
                 /\ now >= row.ExpiresAt)
                => (procs'[i].resp = InvalidGrant /\ NothingMinted)
          /\ \A row \in SeqToSet(DB'.authorization_codes) \ Codes :
                row.ExpiresAt = now + CodeTTL]_vars

\* An unused code, presented by its own client with its own redirect URI
\* at the very minute it expires, has been refused.
C3_Witness ==
    \E i \in Goroutines : \E row \in Codes :
        /\ Answered(i, "Token")
        /\ OwnExchange(procs[i].req, row)
        /\ row.Used = FALSE
        /\ row.ExpiresAt = now
        /\ procs[i].resp = InvalidGrant

\* C6: a successful code exchange answers with the code's scope, and the
\* access token and the refresh token it persists carry the code's scope
\* and subject id.
C6_NoWidening ==
    [][\A i \in Goroutines :
          (/\ Served(i, "Token")
           /\ procs'[i].req.grant_type = "authorization_code"
           /\ procs'[i].resp.status = 200)
          => \E row \in Codes :
                LET body == procs'[i].resp.body
                    at == DB'.access_tokens
                    rt == DB'.refresh_tokens
                IN  /\ row.Code = procs'[i].req.code
                    /\ body.scope = row.Scope
                    /\ Len(at) = Len(DB.access_tokens) + 1
                    /\ Len(rt) = Len(DB.refresh_tokens) + 1
                    /\ at[Len(at)].Token = body.access_token
                    /\ at[Len(at)].Scope = row.Scope
                    /\ at[Len(at)].UserID = row.UserID
                    /\ rt[Len(rt)].Token = body.refresh_token
                    /\ rt[Len(rt)].Scope = row.Scope
                    /\ rt[Len(rt)].UserID = row.UserID]_vars

\* A code for "read write" and user 2 has been exchanged.
C6_Witness ==
    \E i \in Goroutines : \E row \in Codes :
        /\ Answered(i, "Token")
        /\ OwnExchange(procs[i].req, row)
        /\ procs[i].resp.status = 200
        /\ row.Scope = "read write"
        /\ row.UserID = 2
        /\ procs[i].resp.body.scope = "read write"

\* C7: a refresh token presented by its authenticated client before its
\* expiry is accepted however often it has been accepted before, it stays
\* in the store as it is, and no answer to a refresh grant has a
\* refresh_token field.
C7_RefreshRepeatable ==
    [][\A i \in Goroutines :
          /\ \A row \in SeqToSet(DB.refresh_tokens) :
                (/\ Served(i, "Token")
                 /\ procs'[i].req.grant_type = "refresh_token"
                 /\ procs'[i].req.refresh_token = row.Token
                 /\ procs'[i].req.client_id = row.ClientID
                 /\ ValidCredentials(procs'[i].req)
                 /\ now < row.ExpiresAt)
                => /\ procs'[i].resp.status = 200
                   /\ DB'.refresh_tokens = DB.refresh_tokens
          /\ (/\ Served(i, "Token")
              /\ procs'[i].req.grant_type = "refresh_token")
             => "refresh_token" \notin DOMAIN procs'[i].resp.body]_vars

\* A refresh token has been accepted a second time.
C7_Witness ==
    \E i \in Goroutines :
        /\ Answered(i, "Token")
        /\ procs[i].req.grant_type = "refresh_token"
        /\ procs[i].resp.status = 200
        /\ Cardinality({x \in hist.refreshes :
                            x[1] = procs[i].req.refresh_token}) >= 2

\* The store operations of a handler that touch a code or a token.
TokenTableOps(log) ==
    {k \in 1..Len(log) : log[k] # "oauth_clients.First"}

FailsClosed(i) ==
    /\ procs'[i].resp = [status |-> 401, body |-> [error |-> "invalid_client"]]
    /\ TokenTableOps(procs'[i].log) = {}
    /\ DB' = DB

\* C10 as stated: whatever the grant type, a token request whose client_id
\* does not resolve or whose client_secret differs from the stored one is
\* answered invalid_client and reads, changes and creates no code or token.
C10_Original ==
    [][\A i \in Goroutines :
          (Served(i, "Token") /\ ~ ValidCredentials(procs'[i].req))
          => FailsClosed(i)]_vars

\* C10, amended: that holds of every token request that carries a
\* grant_type, a client_id and a client_secret; one that leaves any of the
\* three empty is answered invalid_request instead, and it too reads,
\* changes and creates no code or token.
C10_FailsClosed ==
    [][\A i \in Goroutines :
          (Served(i, "Token") /\ ~ ValidCredentials(procs'[i].req))
          => IF \/ procs'[i].req.grant_type = ""
                \/ procs'[i].req.client_id = ""
                \/ procs'[i].req.client_secret = ""
             THEN /\ procs'[i].resp.status = 400
                  /\ procs'[i].resp.body.error = "invalid_request"
                  /\ procs'[i].log = <<>>
                  /\ DB' = DB
             ELSE FailsClosed(i)]_vars

\* Another client's secret was sent with a code that could still have
\* been exchanged, and the request was refused as invalid_client.
C10_Witness ==
    \E i \in Goroutines : \E row \in Codes :
        /\ Answered(i, "Token")
        /\ procs[i].req.code = row.Code
        /\ procs[i].req.client_id = row.ClientID
        /\ procs[i].req.client_secret # ""
        /\ ~ ValidCredentials(procs[i].req)
        /\ row.Used = FALSE
        /\ row.ExpiresAt > now
        /\ procs[i].resp.body = [error |-> "invalid_client"]

\* The tokens of table that were minted from code.
MintedFrom(table, code) ==
    {k \in 1..Len(table) : <<table[k].Token, code>> \in hist.minted}

\* C2: for every code, at most one token response has been given and the
\* store holds at most one access token and one refresh token derived from
\* it, however the requests that carry it interleave.
C2_ConcurrentSingleUse ==
    \A row \in Codes :
        /\ Cardinality({g \in hist.grants : g[1] = row.Code}) <= 1
        /\ Cardinality(MintedFrom(DB.access_tokens, row.Code)) <= 1
        /\ Cardinality(MintedFrom(DB.refresh_tokens, row.Code)) <= 1

\* C5: an authorization code is marked used only if an access token and a
\* refresh token minted from it are in the store, whether or not a step of
\* the exchange fails.
C5_NoPartialConsumption ==
    \A row \in Codes :
        row.Used => /\ MintedFrom(DB.access_tokens, row.Code) # {}
                    /\ MintedFrom(DB.refresh_tokens, row.Code) # {}

\* The request lacks a field its grant needs.
LacksField(req) ==
    \/ req.grant_type = ""
    \/ req.client_id = ""
    \/ req.client_secret = ""
    \/ req.grant_type = "authorization_code"
         /\ (req.code = "" \/ req.redirect_uri = "")
    \/ req.grant_type = "refresh_token" /\ req.refresh_token = ""

\* C11: a token request that lacks a field its grant needs is answered
\* invalid_request, and no store operation has been performed for it.
C11_MissingFieldsFailEarly ==
    [][\A i \in Goroutines :
          (Served(i, "Token") /\ LacksField(procs'[i].req))
          => /\ procs'[i].resp.status = 400
             /\ procs'[i].resp.body.error = "invalid_request"
             /\ procs'[i].log = <<>>]_vars

\* Why a code grant request does not match the code row it names.
FailureCauses(req, row, t) ==
    {c \in {"client", "redirect", "used", "expired"} :
        \/ c = "client" /\ row.ClientID # req.client_id
        \/ c = "redirect" /\ row.RedirectURI # req.redirect_uri
        \/ c = "used" /\ row.Used
        \/ c = "expired" /\ row.ExpiresAt <= t}

\* C12: a code grant request of an authenticated client that fails because
\* the code is another client's, the redirect URI is not the one of
\* issuance, the code is used or the code is expired gets one and the same
\* answer, status and body, whichever of the causes it is.
C12_AntiEnumeration ==
    [][\A i \in Goroutines : \A row \in Codes :
          (/\ Served(i, "Token")
           /\ procs'[i].req.grant_type = "authorization_code"
           /\ procs'[i].req.code = row.Code
           /\ ValidCredentials(procs'[i].req)
           /\ FailureCauses(procs'[i].req, row, now) # {})
          => procs'[i].resp = InvalidGrant]_vars

\* A request that fails for no other cause than that its code is used has
\* been refused.
C12_Witness ==
    \E i \in Goroutines : \E row \in Codes :
        /\ Answered(i, "Token")
        /\ procs[i].req.grant_type = "authorization_code"
        /\ procs[i].req.code = row.Code
        /\ ValidCredentials(procs[i].req)
        /\ FailureCauses(procs[i].req, row, now) = {"used"}
        /\ procs[i].resp = InvalidGrant

RefreshTokens == SeqToSet(DB.refresh_tokens)

\* C15: a refresh grant of an authenticated client succeeds only if the
\* store holds a refresh token with the presented value, that client's id
\* and an expiry later than now; a refresh token presented by another
\* authenticated client, or at or after its expiry, is answered
\* invalid_grant and no access token is created.
C15_RefreshMatching ==
    [][\A i \in Goroutines :
          (/\ Served(i, "Token")
           /\ procs'[i].req.grant_type = "refresh_token"
           /\ ValidCredentials(procs'[i].req))
          => /\ procs'[i].resp.status = 200
                => \E row \in RefreshTokens :
                      /\ row.Token = procs'[i].req.refresh_token
                      /\ row.ClientID = procs'[i].req.client_id
                      /\ row.ExpiresAt > now
             /\ \A row \in RefreshTokens :
                   (/\ row.Token = procs'[i].req.refresh_token
                    /\ \/ row.ClientID # procs'[i].req.client_id
                       \/ now >= row.ExpiresAt)
                   => /\ procs'[i].resp = InvalidGrant
                      /\ DB'.access_tokens = DB.access_tokens]_vars

\* Another client, authenticated, has presented a live refresh token and
\* been refused.
C15_Witness ==
    \E i \in Goroutines : \E row \in RefreshTokens :
        /\ Answered(i, "Token")
        /\ procs[i].req.grant_type = "refresh_token"
        /\ ValidCredentials(procs[i].req)
        /\ procs[i].req.refresh_token = row.Token
        /\ procs[i].req.client_id # row.ClientID
        /\ row.ExpiresAt > now
        /\ procs[i].resp = InvalidGrant

(* -------------------- claims on the consent flow ---------------------- *)

\* The redirect URIs client id has registered.
RegisteredURIs(id) ==
    UNION {SeqToSet(c.RedirectURIs) : c \in {d \in OAuthClients : d.ID = id}}

\* C4: every persisted authorization code has a redirect URI that its
\* client has registered, and so has every code an answer to a consent
\* request returns.
C4_RedirectRegistered ==
    /\ \A row \in Codes : row.RedirectURI \in RegisteredURIs(row.ClientID)
    /\ \A i \in Goroutines :
          (/\ Answered(i, "AuthorizeConsent")
           /\ procs[i].resp.status = 200
           /\ procs[i].req.approved)
          => procs[i].req.redirect_uri \in RegisteredURIs(procs[i].req.client_id)

\* A consent decision that passes the JSON binding, taken by a signed-in
\* subject.
Decision(i, approved) ==
    /\ Served(i, "AuthorizeConsent")
    /\ procs'[i].req.client_id # ""
    /\ procs'[i].req.redirect_uri # ""
    /\ AuthMiddleware(procs'[i].req.session) # 0
    /\ procs'[i].req.approved = approved

\* C13: a denial by a signed-in subject is answered with redirect_url =
\* redirect_uri + "?error=access_denied&state=" + state, and the store
\* holds the same authorization codes after it as before.
C13_DenialNoStoreEffect ==
    [][\A i \in Goroutines :
          Decision(i, FALSE)
          => /\ procs'[i].resp =
                   [status |-> 200,
                    body |-> [redirect_url |->
                                 procs'[i].req.redirect_uri
                                 \o "?error=access_denied&state="
                                 \o procs'[i].req.state]]
             /\ DB' = DB
             /\ procs'[i].log = <<>>]_vars

\* A denial has been answered while a code was in the store.
C13_Witness ==
    \E i \in Goroutines :
        /\ Answered(i, "AuthorizeConsent")
        /\ AuthMiddleware(procs[i].req.session) # 0
        /\ procs[i].req.client_id # ""
        /\ ~ procs[i].req.approved
        /\ procs[i].resp.status = 200
        /\ Codes # {}

\* The approval served in this step persists exactly one new code, for the
\* request's client, redirect URI, scope and subject, unused and good for
\* 10 minutes, and answers with redirect_uri?code=<code>, followed by
\* &state=<state> unless state is empty.
MintsOneCode(i) ==
    LET req == procs'[i].req
        old == DB.authorization_codes
        new == DB'.authorization_codes
        row == new[Len(new)]
    IN  /\ Len(new) = Len(old) + 1
        /\ SubSeq(new, 1, Len(old)) = old
        /\ row.Code \notin {r.Code : r \in SeqToSet(old)}
        /\ row.ClientID = req.client_id
        /\ row.RedirectURI = req.redirect_uri
        /\ row.Scope = req.scope
        /\ row.UserID = req.session
        /\ row.Used = FALSE
        /\ row.ExpiresAt = now + CodeTTL
        /\ procs'[i].resp =
              [status |-> 200,
               body |-> [redirect_url |->
                   IF req.state = ""
                   THEN req.redirect_uri \o "?code=" \o row.Code
                   ELSE req.redirect_uri \o "?code=" \o row.Code
                        \o "&state=" \o req.state]]

\* C14 as stated: every approval by a signed-in subject mints one code.
C14_Original ==
    [][\A i \in Goroutines : Decision(i, TRUE) => MintsOneCode(i)]_vars

\* C14, amended: an approval by a signed-in subject mints one code if its
\* client_id names a row of oauth_clients; if it names none, the store
\* refuses the code, the answer is 500 and no code is persisted.
C14_ApprovalMintsOneCode ==
    [][\A i \in Goroutines :
          Decision(i, TRUE)
          => IF \E c \in OAuthClients : c.ID = procs'[i].req.client_id
             THEN MintsOneCode(i)
             ELSE /\ procs'[i].resp.status = 500
                  /\ DB' = DB]_vars

\* An approval without state has been answered with a code.
C14_Witness ==
    \E i \in Goroutines :
        /\ Answered(i, "AuthorizeConsent")
        /\ procs[i].req.approved
        /\ procs[i].req.state = ""
        /\ procs[i].resp.status = 200
        /\ \E row \in Codes :
              procs[i].resp.body.redirect_url =
                  procs[i].req.redirect_uri \o "?code=" \o row.Code

AccessTokens == SeqToSet(DB.access_tokens)

InvalidToken == [status |-> 401, body |-> [error |-> "invalid_token"]]

\* C16: UserInfo with the header "Bearer <token>" answers with claims whose
\* sub is the subject id on the access token if the store holds an access
\* token with that value and an expiry later than now, and with
\* invalid_token and no claims otherwise: for an unknown token and for one
\* at or past its expiry.
C16_UserInfoLiveTokens ==
    [][\A i \in Goroutines : \A token \in Issued \cup {""} :
          (/\ Served(i, "UserInfo")
           /\ procs'[i].req.Authorization = <<"Bearer", " ", token>>)
          => IF \E row \in AccessTokens :
                    row.Token = token /\ row.ExpiresAt > now
             THEN /\ procs'[i].resp.status = 200
                  /\ \E row \in AccessTokens :
                        /\ row.Token = token
                        /\ procs'[i].resp.body.sub = row.UserID
             ELSE procs'[i].resp = InvalidToken]_vars

\* An access token presented at the very minute it expires has been
\* refused.
C16_Witness ==
    \E i \in Goroutines : \E row \in AccessTokens :
        /\ Answered(i, "UserInfo")
        /\ procs[i].req.Authorization = <<"Bearer", " ", row.Token>>
        /\ row.ExpiresAt = now
        /\ procs[i].resp = InvalidToken

(* ------------------------ claims on the relay ------------------------- *)

\* Relay goroutine i takes a request for op and answers it in this step.
RelayServed(i, op) ==
    /\ relay[i].pc = "idle"
    /\ relay'[i].pc = "done"
    /\ relay'[i].op = op

InvalidState == [status |-> 400, body |-> "Invalid state"]

\* The values location gives for key.
Values(location, key) ==
    {location.Query[n][2] :
        n \in {m \in 1..Len(location.Query) : location.Query[m][1] = key}}

\* resp redirects to the return address raw with code and state as its
\* code and state parameters and raw's other parameters as they were.
RedirectsTo(resp, raw, code, state) ==
    /\ resp.status = 307
    /\ resp.location.Path = raw[1]
    /\ Values(resp.location, "code") = {code}
    /\ Values(resp.location, "state") = {state}
    /\ \A k \in DOMAIN Query(Parse(raw).RawQuery) \ {"code", "state"} :
          Values(resp.location, k) = SeqToSet(Query(Parse(raw).RawQuery)[k])

\* handleAuthorize with redirect_uri R and state S keeps R under S.
AuthorizeStores(i) ==
    (/\ RelayServed(i, "handleAuthorize")
     /\ relay'[i].req.redirect_uri # <<>>
     /\ relay'[i].req.state # "")
    => /\ relay'[i].req.state \in DOMAIN stateStore'
       /\ stateStore'[relay'[i].req.state] = relay'[i].req.redirect_uri

\* A callback for a state a callback has consumed, with no handleAuthorize
\* for it since, is answered Invalid state.
ReplayRefused(i) ==
    (/\ RelayServed(i, "handleCallback")
     /\ relay'[i].req.code # ""
     /\ relay'[i].req.state \in consumed)
    => relay'[i].resp = InvalidState

\* C8 as stated: handleAuthorize with R and S followed by handleCallback
\* with a code C and S redirects to R with code=C and state=S, whatever R
\* is, and a second handleCallback with S is answered Invalid state.
C8_Original ==
    [][\A i \in Goroutines :
          /\ AuthorizeStores(i)
          /\ (/\ RelayServed(i, "handleCallback")
              /\ relay'[i].req.code # ""
              /\ relay'[i].req.state \in DOMAIN stateStore)
             => /\ RedirectsTo(relay'[i].resp,
                               stateStore[relay'[i].req.state],
                               relay'[i].req.code, relay'[i].req.state)
                /\ relay'[i].req.state \notin DOMAIN stateStore'
          /\ ReplayRefused(i)]_vars

\* C8, amended: the callback redirects to R with code=C and state=S if
\* url.Parse accepts R; if it does not, the callback is answered 500
\* Invalid redirect_uri.  Either way S is consumed, and a second
\* handleCallback with S is answered Invalid state.
C8_RelayRoundTrip ==
    [][\A i \in Goroutines :
          /\ AuthorizeStores(i)
          /\ (/\ RelayServed(i, "handleCallback")
              /\ relay'[i].req.code # ""
              /\ relay'[i].req.state \in DOMAIN stateStore)
             => /\ IF Parse(stateStore[relay'[i].req.state]).ok
                   THEN RedirectsTo(relay'[i].resp,
                                    stateStore[relay'[i].req.state],
                                    relay'[i].req.code, relay'[i].req.state)
                   ELSE relay'[i].resp =
                            [status |-> 500, body |-> "Invalid redirect_uri"]
                /\ relay'[i].req.state \notin DOMAIN stateStore'
          /\ ReplayRefused(i)]_vars

\* A second callback for a consumed state has been refused.
C8_Witness ==
    \E i \in Goroutines :
        /\ relay[i].pc = "done"
        /\ relay[i].op = "handleCallback"
        /\ relay[i].req.code # ""
        /\ relay[i].req.state \in consumed
        /\ relay[i].resp = InvalidState

\* C9: no two goroutines are at accesses to stateStore, one of them a write
\* or a delete, that nothing orders, and no two callbacks for one state
\* have both found its entry.
C9_RaceFree ==
    \A i, j \in Goroutines :
        /\ ~ Racing(i, j)
        /\ ~ (/\ i # j
              /\ relay[i].op = "handleCallback"
              /\ relay[j].op = "handleCallback"
              /\ relay[i].req.state = relay[j].req.state
              /\ relay[i].pc \in {"mapdelete", "Parse"}
              /\ relay[j].pc \in {"mapdelete", "Parse"})

(* -------------------- claims on the relay's /token -------------------- *)

\* Relay goroutine i has answered a request for op and not yet gone.
RelayAnswered(i, op) == relay[i].pc = "done" /\ relay[i].op = op

\* handleToken has had an answer from the upstream, read in full.
UpstreamAnswered(i) ==
    /\ RelayAnswered(i, "handleToken")
    /\ relay[i].ebayResp.failure = ""

Names(body) == {body.members[n][1] : n \in 1..Len(body.members)}

\* The value a JSON object gives a name: that of its last such member.
Field(body, name) ==
    LET n == CHOOSE m \in 1..Len(body.members) :
                /\ body.members[m][1] = name
                /\ \A l \in 1..Len(body.members) :
                      body.members[l][1] = name => l <= m
    IN  body.members[n][2]

\* C17: for an upstream answer below 400 whose body is a JSON object, the
\* relayed body is an object with the upstream's fields, token_type is
\* "Bearer" if the upstream had a token_type and absent if it had none,
\* every other field has its upstream value, the status is the upstream's
\* and Content-Length is the byte length of the relayed body.
C17_TokenTypeNormalization ==
    \A i \in Goroutines :
        (/\ UpstreamAnswered(i)
         /\ relay[i].ebayResp.status < 400
         /\ relay[i].ebayResp.body.kind = "object")
        => LET up == relay[i].ebayResp.body
               down == relay[i].resp.body
           IN  /\ relay[i].resp.status = relay[i].ebayResp.status
               /\ down.kind = "object"
               /\ Names(down) = Names(up)
               /\ "token_type" \in Names(up)
                     => Field(down, "token_type") = JSONString("Bearer")
               /\ \A name \in Names(up) \ {"token_type"} :
                     Field(down, name) = Field(up, name)
               /\ relay[i].resp.header["Content-Length"]
                     = <<ToString(Bytes(down))>>

\* C18: an upstream answer of 400 or above is relayed with its status and
\* with its body as it came, a token_type in it included.
C18_ErrorPassThrough ==
    \A i \in Goroutines :
        (UpstreamAnswered(i) /\ relay[i].ebayResp.status >= 400)
        => /\ relay[i].resp.status = relay[i].ebayResp.status
           /\ relay[i].resp.body = relay[i].ebayResp.body

\* An upstream 400 whose body names a token_type has been relayed as it
\* came.
C18_Witness ==
    \E i \in Goroutines :
        /\ UpstreamAnswered(i)
        /\ relay[i].ebayResp.status = 400
        /\ relay[i].ebayResp.body.kind = "object"
        /\ "token_type" \in Names(relay[i].ebayResp.body)
        /\ relay[i].resp.body = relay[i].ebayResp.body

\* Every value the upstream request carries, in its form or its headers.
Carried(proxyReq) ==
    UNION {SeqToSet(proxyReq.form[k]) : k \in DOMAIN proxyReq.form}
    \cup UNION {SeqToSet(proxyReq.header[k]) : k \in DOMAIN proxyReq.header}

Sent(i) ==
    /\ RelayAnswered(i, "handleToken")
    /\ relay[i].proxyReq # NoRequest

\* C19: every request handleToken sends upstream is authorized with
\* Basic base64(ebayClientID:ebayClientSecret), carries the configured
\* redirect URL as redirect_uri when it is a code grant, and carries no
\* client_id, client_secret or redirect_uri the caller sent.
C19_OwnIdentityOnly ==
    \A i \in Goroutines :
        Sent(i)
        => LET proxyReq == relay[i].proxyReq
               req == relay[i].req
           IN  /\ proxyReq.header["Authorization"] =
                     <<"Basic "
                       \o Base64(ebayClientID \o ":" \o ebayClientSecret)>>
               /\ proxyReq.form["grant_type"] = <<"authorization_code">>
                     => proxyReq.form["redirect_uri"] = <<appRedirectURL>>
               /\ "client_id" \notin DOMAIN proxyReq.form
               /\ "client_secret" \notin DOMAIN proxyReq.form
               /\ Carried(proxyReq)
                    \cap ({req.client_id, req.client_secret, req.redirect_uri}
                          \ {""}) = {}

\* A code grant whose caller sent a redirect_uri and credentials of its own
\* has gone upstream.
C19_Witness ==
    \E i \in Goroutines :
        /\ Sent(i)
        /\ relay[i].proxyReq.form["grant_type"] = <<"authorization_code">>
        /\ relay[i].req.redirect_uri # ""
        /\ relay[i].req.client_id # ""

\* C20: the upstream request for a refresh-token exchange carries
\* grant_type=refresh_token, the caller's refresh_token and, as scope, the
\* space-joined configured scopes that handleAuthorize's redirect carries,
\* whatever scope the caller sent.
C20_RefreshResendsScopes ==
    \A i \in Goroutines :
        (/\ Sent(i)
         /\ \/ relay[i].proxyReq.form["grant_type"] = <<"refresh_token">>
            \/ /\ relay[i].req.grant_type = "refresh_token"
               /\ relay[i].req.refresh_token # "")
        => LET form == relay[i].proxyReq.form IN
           /\ form["grant_type"] = <<"refresh_token">>
           /\ form["refresh_token"] = <<relay[i].req.refresh_token>>
           /\ form["scope"] = <<Join(Scopes)>>
           /\ Values(AuthCodeURL("s1"), "scope") = {form["scope"][1]}

\* A refresh whose caller sent a scope of its own has gone upstream.
C20_Witness ==
    \E i \in Goroutines :
        /\ Sent(i)
        /\ relay[i].proxyReq.form["grant_type"] = <<"refresh_token">>
        /\ relay[i].req.scope # ""
        /\ relay[i].req.scope # Join(Scopes)

\* C22: handleAuthorize with an empty redirect_uri or an empty state is
\* answered 400 Bad Request, not with a redirect, and leaves stateStore as
\* it was.
C22_IncompleteAuthorizeRejected ==
    [][\A i \in Goroutines :
          (/\ RelayServed(i, "handleAuthorize")
           /\ \/ relay'[i].req.redirect_uri = <<>>
              \/ relay'[i].req.state = "")
          => /\ relay'[i].resp =
                  [status |-> 400,
                   body |-> "Missing required parameters: redirect_uri and state"]
             /\ stateStore' = stateStore
             /\ consumed' = consumed]_vars

\* A request that names a state but no redirect_uri has been refused while
\* stateStore holds an entry of an earlier request.
C22_Witness ==
    \E i \in Goroutines :
        /\ RelayAnswered(i, "handleAuthorize")
        /\ relay[i].req.redirect_uri = <<>>
        /\ relay[i].req.state # ""
        /\ relay[i].resp.status = 400
        /\ DOMAIN stateStore # {}
        /\ relay[i].req.state \notin DOMAIN stateStore

\* C21: a handleToken request that has reached the upstream call is
\* answered once, and if the upstream call failed in transport or ran into
\* the client's timeout, the answer is 502 Bad Gateway: not a token
\* response and not an error of any other kind.
C21_SilentUpstreamIsBadGateway ==
    \A i \in Goroutines :
        (/\ Sent(i)
         /\ relay[i].ebayResp.failure \in {"Do", "ReadAll"})
        => relay[i].resp.status = 502

\* C31: when the upstream token endpoint answers with a status below 400
\* and a body that does not decode as a JSON object, handleToken relays
\* that body as it came, under the upstream's status and headers, and does
\* not fail the request.
C31_UnparseableBodyRelayed ==
    \A i \in Goroutines :
        (/\ UpstreamAnswered(i)
         /\ relay[i].ebayResp.status < 400
         /\ relay[i].ebayResp.body.kind # "object")
        => /\ relay[i].resp.status = relay[i].ebayResp.status
           /\ relay[i].resp.body = relay[i].ebayResp.body
           /\ relay[i].resp.header
                 = copyHeaders(NoHeader, relay[i].ebayResp.header)

\* A 200 whose body is plain text has been relayed.
C31_Witness ==
    \E i \in Goroutines :
        /\ UpstreamAnswered(i)
        /\ relay[i].ebayResp.status = 200
        /\ relay[i].ebayResp.body = Text("Service Unavailable")
        /\ relay[i].resp.status = 200
        /\ relay[i].resp.body = Text("Service Unavailable")

\* The states of the requests for op that are answered in this step with
\* one of statuses.
AnsweredStates(op, statuses) ==
    {relay'[i].req.state :
        i \in {j \in Goroutines : /\ RelayServed(j, op)
                                  /\ relay'[j].resp.status \in statuses}}

\* stateStore changes by exactly the entries of added and removed.
StoreChangesBy(added, removed) ==
    /\ DOMAIN stateStore' = (DOMAIN stateStore \cup added) \ removed
    /\ \A k \in DOMAIN stateStore' \ added : stateStore'[k] = stateStore[k]

\* C34 as stated: a handleAuthorize that redirects adds its state, a
\* handleCallback that redirects removes its state, and nothing else,
\* a failed callback included, adds or removes an entry.
C34_Original ==
    [][StoreChangesBy(AnsweredStates("handleAuthorize", {307}),
                      AnsweredStates("handleCallback", {307}))]_vars

\* C34: stateStore holds exactly the states for which a handleAuthorize
\* has redirected with no handleCallback finding the entry since: a
\* handleAuthorize that redirects adds its state; a handleCallback that
\* finds the entry removes it, whether it then redirects or fails with 500
\* on a return address it cannot parse; a request refused with 400, and
\* every handleToken and handleProxy request, adds and removes nothing.
C34_PendingStateContents ==
    [][StoreChangesBy(AnsweredStates("handleAuthorize", {307}),
                      AnsweredStates("handleCallback", {307, 500}))]_vars

\* Token and proxy requests have been served while an entry waits for its
\* callback.
C34_Witness ==
    \E i \in Goroutines :
        /\ RelayAnswered(i, "handleProxy") \/ RelayAnswered(i, "handleToken")
        /\ DOMAIN stateStore = {"s1"}
        /\ consumed = {"s2"}

\* The caller asks for a refresh and names a refresh token.
AsksRefresh(req) == req.grant_type = "refresh_token" /\ req.refresh_token # ""

\* C38: a handleToken request that is not a POST is answered 405 and one
\* whose form does not parse 400, with no upstream request.  Of the others,
\* a refresh-token exchange goes upstream if and only if grant_type is
\* refresh_token and refresh_token is non-empty; otherwise, if code is
\* non-empty, an authorization_code exchange with that code goes upstream
\* whatever the grant_type; otherwise the answer is 400 and no request
\* goes upstream.
C38_GrantDispatch ==
    \A i \in Goroutines :
        RelayAnswered(i, "handleToken")
        => LET req == relay[i].req
               proxyReq == relay[i].proxyReq
               sends(grant) == /\ proxyReq # NoRequest
                               /\ proxyReq.form["grant_type"] = <<grant>>
           IN  IF req.method # "POST"
               THEN relay[i].resp.status = 405 /\ proxyReq = NoRequest
               ELSE IF req.malformed
               THEN relay[i].resp.status = 400 /\ proxyReq = NoRequest
               ELSE /\ sends("refresh_token") <=> AsksRefresh(req)
                    /\ (~ AsksRefresh(req) /\ req.code # "")
                       => /\ sends("authorization_code")
                          /\ proxyReq.form["code"] = <<req.code>>
                    /\ (~ AsksRefresh(req) /\ req.code = "")
                       => /\ relay[i].resp.status = 400
                          /\ proxyReq = NoRequest

\* A request for a refresh that names no refresh token but a code has gone
\* upstream as a code exchange, or one of an unknown grant type has.
C38_Witness ==
    \E i \in Goroutines :
        /\ Sent(i)
        /\ relay[i].req.grant_type \in {"refresh_token", "password"}
        /\ relay[i].req.refresh_token = ""
        /\ relay[i].req.code = "c1"
        /\ relay[i].proxyReq.form["grant_type"] = <<"authorization_code">>

\* What the callback with code and state gets in the world w.
CallbackIn(w, code, state) ==
    RelayRun(w, NewRelay("handleCallback", [code |-> code, state |-> state]))

\* For a state that has an entry, a callback without a code is answered
\* 400 and leaves stateStore as it is, and the callback with a code that
\* comes after it redirects to the stored address; if strict is FALSE it
\* may instead be answered 500 where url.Parse refuses the address.
CodelessThenCoded(state, code, strict) ==
    LET w == RelayWorld(stateStore, consumed, superseded)
        first == CallbackIn(w, "", state)
        second == CallbackIn(first.w, code, state)
    IN  /\ first.p.resp = [status |-> 400, body |-> "Code not found"]
        /\ first.w.store = stateStore
        /\ IF strict \/ Parse(stateStore[state]).ok
           THEN RedirectsTo(second.p.resp, stateStore[state], code, state)
           ELSE second.p.resp =
                    [status |-> 500, body |-> "Invalid redirect_uri"]

\* C39 as stated: a callback without a code is answered 400 and leaves
\* stateStore as it is, and a later callback with the same state and a
\* code redirects to the stored return address, whatever the address.
C39_Original ==
    \A state \in DOMAIN stateStore : \A code \in {"c1", "c2"} :
        CodelessThenCoded(state, code, TRUE)

\* C39: a callback without a code is answered 400 and leaves stateStore as
\* it is, so a later callback with the same state and a code finds the
\* entry: it redirects to the stored return address if url.Parse accepts
\* the address, and is answered 500 Invalid redirect_uri if not.
C39_CodelessCallbackKeepsState ==
    \A state \in DOMAIN stateStore : \A code \in {"c1", "c2"} :
        CodelessThenCoded(state, code, FALSE)

\* A callback without a code has been refused for a state whose entry is
\* still in the store.
C39_Witness ==
    \E i \in Goroutines :
        /\ RelayAnswered(i, "handleCallback")
        /\ relay[i].req.code = ""
        /\ relay[i].resp.status = 400
        /\ relay[i].req.state \in DOMAIN stateStore
        /\ Parse(stateStore[relay[i].req.state]).ok

\* A handleAuthorize for a state that has an entry with another address
\* replaces the address and adds no entry.
Overwrites(i) ==
    (/\ RelayServed(i, "handleAuthorize")
     /\ relay'[i].resp.status = 307
     /\ relay'[i].req.state \in DOMAIN stateStore
     /\ stateStore[relay'[i].req.state] # relay'[i].req.redirect_uri)
    => /\ stateStore'[relay'[i].req.state] = relay'[i].req.redirect_uri
       /\ DOMAIN stateStore' = DOMAIN stateStore
       /\ relay'[i].req.state \in superseded'

\* The callback for a state whose entry replaced another finds the entry,
\* removes it and redirects to the address it holds; if strict is FALSE it
\* may instead be answered 500 where url.Parse refuses the address.
ConsumesLatest(i, strict) ==
    LET state == relay'[i].req.state IN
    (/\ RelayServed(i, "handleCallback")
     /\ relay'[i].req.code # ""
     /\ state \in superseded
     /\ state \notin consumed)
    => /\ state \in DOMAIN stateStore
       /\ state \notin DOMAIN stateStore'
       /\ IF strict \/ Parse(stateStore[state]).ok
          THEN RedirectsTo(relay'[i].resp, stateStore[state],
                           relay'[i].req.code, state)
          ELSE relay'[i].resp =
                   [status |-> 500, body |-> "Invalid redirect_uri"]

\* C40 as stated: after handleAuthorize with S and R1 and then with S and
\* R2, stateStore has the one entry for S, holding R2; the next callback
\* for S redirects to R2, whatever R2 is, and leaves no entry for S.
C40_Original ==
    [][\A i \in Goroutines : Overwrites(i) /\ ConsumesLatest(i, TRUE)]_vars

\* C40: after handleAuthorize with S and R1 and then with S and R2,
\* stateStore has the one entry for S, holding R2; the next callback for S
\* leaves no entry for S, and it redirects to R2 if url.Parse accepts R2
\* and is answered 500 Invalid redirect_uri, with no redirect, if not.
C40_LastWriterWins ==
    [][\A i \in Goroutines : Overwrites(i) /\ ConsumesLatest(i, FALSE)]_vars

\* The callback for a state stored twice, with two addresses, has
\* redirected with the code, and no entry is left.
C40_Witness ==
    \E i \in Goroutines :
        /\ RelayAnswered(i, "handleCallback")
        /\ relay[i].resp.status = 307
        /\ relay[i].req.state \in superseded
        /\ relay[i].req.state \in consumed
        /\ relay[i].req.state \notin DOMAIN stateStore

(* ------------------------- claims on Authorize ------------------------ *)

Resolves(clientID) == \E c \in OAuthClients : c.ID = clientID

\* Authorize's answers to an unknown client and to an unregistered
\* redirect URI.
InvalidClientID == [status |-> 400, body |-> [error |-> "Invalid client_id"]]

InvalidRedirect ==
    [status |-> 400, body |-> [error |-> "Invalid redirect_uri"]]

\* No store record is created or changed, and no code is generated.
NoStoreEffect == DB' = DB /\ rng' = rng /\ hist' = hist

\* An unknown client is refused as such, and a known one with a redirect
\* URI it has not registered is refused for that.
ClientThenRedirect(req, resp) ==
    IF ~ Resolves(req.client_id) THEN resp = InvalidClientID
    ELSE req.redirect_uri \notin RegisteredURIs(req.client_id)
         => resp = InvalidRedirect

UnsupportedGrantType ==
    [status |-> 400, body |-> [error |-> "unsupported_grant_type"]]

\* C29: a token request of an authenticated client whose grant_type is
\* neither authorization_code nor refresh_token is answered
\* unsupported_grant_type and leaves every code, access token and refresh
\* token as it was, whatever code or refresh token it carries.
C29_UnsupportedGrantNoEffect ==
    [][\A i \in Goroutines :
          (/\ Served(i, "Token")
           /\ ValidCredentials(procs'[i].req)
           /\ procs'[i].req.grant_type
                 \notin {"", "authorization_code", "refresh_token"})
          => /\ procs'[i].resp = UnsupportedGrantType
             /\ DB' = DB
             /\ rng' = rng]_vars

\* A request with another grant type has been refused while it carried a
\* code its client could have exchanged at that moment.
C29_Witness ==
    \E i \in Goroutines : \E row \in Codes :
        /\ Answered(i, "Token")
        /\ procs[i].req.grant_type = "password"
        /\ procs[i].resp = UnsupportedGrantType
        /\ procs[i].req.code = row.Code
        /\ procs[i].req.client_id = row.ClientID
        /\ procs[i].req.redirect_uri = row.RedirectURI
        /\ ~ row.Used
        /\ row.ExpiresAt > now

\* C30: UserInfo with no Authorization header, with one that does not
\* split into exactly two parts, or with a scheme that is not exactly
\* "Bearer" is answered invalid_request with status 400, and looks up no
\* access token.
C30_MalformedHeaderIsBadRequest ==
    [][\A i \in Goroutines :
          (/\ Served(i, "UserInfo")
           /\ LET parts == Split(procs'[i].req.Authorization) IN
              \/ procs'[i].req.Authorization = <<>>
              \/ Len(parts) # 2
              \/ parts[1] # "Bearer")
          => /\ procs'[i].resp.status = 400
             /\ procs'[i].resp.body = [error |-> "invalid_request"]
             /\ procs'[i].log = <<>>]_vars

(* ---------------------- claims on the store's records ----------------- *)

\* Whom a code or token stands for, and for what.
Triple(row) == <<row.ClientID, row.UserID, row.Scope>>

\* C32: every access token and every refresh token in the store has the
\* client, subject and scope of an authorization code in the store, which
\* an approved consent issued: those of the code it was minted from, or
\* those of the refresh token it was minted from.
C32_TokenProvenance ==
    /\ \A row \in AccessTokens \cup RefreshTokens :
          \E code \in Codes : Triple(code) = Triple(row)
    /\ \A row \in AccessTokens \cup RefreshTokens : \A code \in Codes :
          <<row.Token, code.Code>> \in hist.minted
          => Triple(row) = Triple(code)
    /\ \A from \in RefreshTokens : \A row \in AccessTokens :
          <<from.Token, row.Token>> \in hist.refreshes
          => Triple(row) = Triple(from)

\* The store holds an access token that a refresh grant has minted.
C32_Witness ==
    \E from \in RefreshTokens : \E row \in AccessTokens :
        /\ <<from.Token, row.Token>> \in hist.refreshes
        /\ Triple(row) = Triple(from)

\* C33: no operation deletes an authorization-code record or changes its
\* code, client, subject, redirect URI, scope or expiry, and its used flag
\* changes from false to true only.
C33_CodeRecordsMonotone ==
    [][/\ Len(DB'.authorization_codes) >= Len(DB.authorization_codes)
       /\ \A k \in 1..Len(DB.authorization_codes) :
             LET old == DB.authorization_codes[k]
                 new == DB'.authorization_codes[k]
             IN  /\ [new EXCEPT !.Used = FALSE] = [old EXCEPT !.Used = FALSE]
                 /\ old.Used => new.Used]_vars

\* A code that has been exchanged and has expired is still in the store.
C33_Witness ==
    \E row \in Codes : row.Used /\ row.ExpiresAt <= now

\* C35: a token request with grant_type=authorization_code that is
\* answered invalid_grant changes no authorization code, its used flag
\* included, and no access or refresh token; and a request of a code's own
\* client, authenticated, with the issuing redirect URI, for a code that is
\* unused and not yet expired, is answered 200.
C35_FailedExchangeKeepsCode ==
    [][\A i \in Goroutines :
          /\ (/\ Served(i, "Token")
              /\ procs'[i].req.grant_type = "authorization_code"
              /\ procs'[i].resp = InvalidGrant)
             => /\ DB'.authorization_codes = DB.authorization_codes
                /\ NothingMinted
          /\ \A row \in Codes :
                (/\ Served(i, "Token")
                 /\ OwnExchange(procs'[i].req, row)
                 /\ row.Used = FALSE
                 /\ row.ExpiresAt > now)
                => procs'[i].resp.status = 200]_vars

\* A code has been presented in vain, by another client or with another
\* redirect URI, and is still unused and unexpired.
C35_Witness ==
    \E i \in Goroutines : \E row \in Codes :
        /\ Answered(i, "Token")
        /\ procs[i].req.grant_type = "authorization_code"
        /\ procs[i].req.code = row.Code
        /\ ValidCredentials(procs[i].req)
        /\ \/ procs[i].req.client_id # row.ClientID
           \/ procs[i].req.redirect_uri # row.RedirectURI
        /\ procs[i].resp = InvalidGrant
        /\ row.Used = FALSE
        /\ row.ExpiresAt > now

\* The tokens a 200 token response has carried.
Returned ==
    {g[2] : g \in hist.grants} \cup {g[3] : g \in hist.grants}
    \cup {x[2] : x \in hist.refreshes}

\* C36: every access token and every refresh token in the store has been
\* returned to a caller in a 200 token response, so a token request that
\* ends in an error has left no token behind.
C36_NoOrphanTokens ==
    \A row \in AccessTokens \cup RefreshTokens : row.Token \in Returned

\* C37: a token request with grant_type=refresh_token that is answered 200
\* adds one access token, the one it returns, expiring an hour from now,
\* and changes nothing else: the access tokens issued before are in the
\* store as they were, and so are the refresh tokens and the authorization
\* codes.
C37_RefreshGrantFrame ==
    [][\A i \in Goroutines :
          (/\ Served(i, "Token")
           /\ procs'[i].req.grant_type = "refresh_token"
           /\ procs'[i].resp.status = 200)
          => LET n == Len(DB.access_tokens) IN
             /\ Len(DB'.access_tokens) = n + 1
             /\ SubSeq(DB'.access_tokens, 1, n) = DB.access_tokens
             /\ DB'.access_tokens[n + 1].Token =
                    procs'[i].resp.body.access_token
             /\ DB'.access_tokens[n + 1].ExpiresAt = now + AccessTTL
             /\ DB'.refresh_tokens = DB.refresh_tokens
             /\ DB'.authorization_codes = DB.authorization_codes]_vars

\* A refresh has been answered 200 some time after the exchange, and the
\* access token of the exchange is in the store, not yet expired, next to
\* the new one.
C37_Witness ==
    \E i \in Goroutines : \E new, old \in AccessTokens :
        /\ Answered(i, "Token")
        /\ procs[i].req.grant_type = "refresh_token"
        /\ procs[i].resp.status = 200
        /\ new.Token = procs[i].resp.body.access_token
        /\ new.ExpiresAt = now + AccessTTL
        /\ old.Token # new.Token
        /\ old.ExpiresAt > now
        /\ old.ExpiresAt < new.ExpiresAt

(* ---------------------- claims on store failures ---------------------- *)

\* The store writes of handleAuthorizationCodeGrant, by the step that
\* makes them, as the log names them.
StoreWrites ==
    [MarkUsed      |-> "oauth_authorization_codes.Update",
     CreateAccess  |-> "oauth_access_tokens.Create",
     CreateRefresh |-> "oauth_refresh_tokens.Create"]

\* Goroutine i has served a code exchange in which the write of step
\* failAt was made and failed.
WriteFailed(i, failAt) ==
    /\ TokenOf(i, ExchangeRequests, failAt)
    /\ StoreWrites[failAt] \in SeqToSet(procs'[i].log)

ServerError == [status |-> 500, body |-> [error |-> "server_error"]]

\* C26: a code exchange in which the mark-used update, the access-token
\* insert or the refresh-token insert fails is answered server_error, and
\* not with a token response.
C26_StoreFailuresSurface ==
    [][\A i \in Goroutines : \A failAt \in DOMAIN StoreWrites :
          WriteFailed(i, failAt) => procs'[i].resp = ServerError]_vars

(* --------------------- claims on the relay's /proxy ------------------- *)

\* handleProxy has sent the request on.
Forwarded(i) == RelayAnswered(i, "handleProxy") /\ relay[i].sent # <<>>

\* The header carries a bearer token: two parts, the first one the Bearer
\* scheme in whatever case.
CarriesBearer(authHeader) ==
    /\ Len(Split(authHeader)) = 2
    /\ Split(authHeader)[1] \in {"Bearer", "bearer", "BEARER"}

\* The headers of a caller that mean nothing upstream.
SessionHeaders == {"Cookie"}

TraceContextHeaders ==
    {"Traceparent", "Tracestate", "X-Datadog-Parent-Id",
     "X-Datadog-Sampling-Priority", "X-Datadog-Tags", "X-Datadog-Trace-Id"}

RequestIdHeaders == {"X-Request-Id"}

\* What goes upstream carries the caller's token and query and none of the
\* caller's session, trace-context and request-id headers.
ForwardsCallersToken(i) ==
    LET r == relay[i].req
        out == relay[i].sent[1]
    IN  /\ Len(relay[i].sent) = 1
        /\ out.header["Authorization"]
               = <<"Bearer " \o Split(r.Authorization)[2]>>
        /\ out.rawQuery = r.rawQuery
        /\ DOMAIN out.header
               \cap (SessionHeaders \cup TraceContextHeaders
                         \cup RequestIdHeaders) = {}

\* The path that goes upstream is the caller's without its /proxy prefix.
ForwardsPath(i) ==
    relay[i].sent[1].path = Concat(TrimPrefix(relay[i].req.path, "/proxy"))

\* C23: handleProxy sends a request upstream only when the caller's
\* Authorization header has exactly two space-separated parts with a Bearer
\* scheme; what it sends then carries "Bearer " and the caller's token as
\* Authorization, the caller's path without the /proxy prefix, the caller's
\* query string, and none of the caller's Cookie, trace-context and
\* request-id headers.  Any other request is answered 401 with nothing
\* sent upstream.
C23_ForwardsOnlyWithBearer ==
    \A i \in Goroutines :
        RelayAnswered(i, "handleProxy")
        => IF CarriesBearer(relay[i].req.Authorization)
           THEN ForwardsCallersToken(i) /\ ForwardsPath(i)
           ELSE relay[i].sent = <<>> /\ relay[i].resp.status = 401

\* C24: a handleProxy request whose round trip fails in transport is
\* answered 502 Bad Gateway after exactly one attempt upstream.
C24_TransportFailureIsBadGateway ==
    \A i \in Goroutines :
        (/\ RelayAnswered(i, "handleProxy")
         /\ relay[i].ebayResp.failure \in TransportFailures)
        => /\ relay[i].resp.status = 502
           /\ Len(relay[i].sent) = 1

\* A round trip has timed out waiting for the response headers.
C24_Witness ==
    \E i \in Goroutines :
        /\ Forwarded(i)
        /\ relay[i].ebayResp.failure
              = "net/http: timeout awaiting response headers"
        /\ relay[i].resp.status = 502

\* C25: when the resource API answers with status >= 400, the caller gets
\* that status and the whole upstream body if the body arrives whole, and
\* 502 Bad Gateway, not a shortened body, if reading it fails.
C25_ErrorBodiesReemitted ==
    \A i \in Goroutines :
        (/\ Forwarded(i)
         /\ relay[i].ebayResp.failure = ""
         /\ relay[i].ebayResp.status >= 400)
        => LET up == relay[i].ebayResp IN
           IF up.read = Len(up.body)
           THEN /\ relay[i].resp.status = up.status
                /\ relay[i].resp.body = Concat(up.body)
                /\ ~ relay[i].resp.aborted
           ELSE relay[i].resp.status = 502

\* A 404 whose body came in two chunks has been passed on whole.
C25_Witness ==
    \E i \in Goroutines :
        /\ Forwarded(i)
        /\ relay[i].ebayResp.failure = ""
        /\ relay[i].ebayResp.status = 404
        /\ Len(relay[i].ebayResp.body) = 2
        /\ relay[i].ebayResp.read = 2
        /\ relay[i].resp.status = 404
        /\ relay[i].resp.body = Concat(relay[i].ebayResp.body)

============================================================================
